---- MODULE Spec2Model ----
(***************************************************************************)
(* A model of sesam.py (the sesam command line client):                    *)
(*   - the scheduler run-loop: SesamCmdClient.start_scheduler, run, test    *)
(*     with the SesamNode calls they make (specification Spec);             *)
(*   - the output verification engine: load_test_specs, filter_entity,      *)
(*     verify, update (specification SpecVerify).                           *)
(* The remote node is the environment: its calls may raise, and the values *)
(* it returns are chosen nondeterministically from small sets.             *)
(***************************************************************************)
EXTENDS Integers, Sequences, FiniteSets, TLC

(* ---------------------------------------------------------------------- *)
(* Program constants                                                       *)
(* ---------------------------------------------------------------------- *)

\* start_scheduler(self, timeout=300) and wait_for_microservice(.., timeout=300)
Timeout == 300

\* add_system(self, config, verify=False, timeout=300)
AddSystemTimeout == 300

\* sleep_time = 5.0 in add_system and in wait_for_microservice
SleepTime == 5

\* -scheduler-poll-frequency default, in milliseconds
SchedulerPollFrequency == 5000

(* ---------------------------------------------------------------------- *)
(* Bounds of the model                                                     *)
(* ---------------------------------------------------------------------- *)

\* How many status polls the history variable records before it collapses.
MaxHist == 4

\* How many poll intervals past a budget the ghost counters keep counting.
MaxOverrun == 2

VARIABLES
    command,                \* the command given on the command line
    custom_scheduler,       \* args.custom_scheduler
    dont_remove_scheduler,  \* args.dont_remove_scheduler
    systemExists,           \* the node holds a system under args.scheduler_id
    pc,                     \* position in test / run / start_scheduler
    vtimeout,               \* add_system's local timeout
    wtimeout,               \* wait_for_microservice's local timeout
    timeout,                \* start_scheduler's local timeout
    status,                 \* run's local status (the last poll's result)
    polls,                  \* history: results of get_scheduler_status, in order
    runPolls,               \* history: polls made by run's loop (saturating)
    events,                 \* history: add_system / remove_system calls, in order
    faults,                 \* history: a node call other than a status poll raised
    ssFailed,               \* history: the step of start_scheduler that failed
    runState,               \* SchedulerRun state reached
    exitKind,               \* how run's try block was left
    cleanupRemove,          \* history: the removal made by start_scheduler's handler
    finallyRemove,          \* history: the removal made by run's finally clause
    callerSees,             \* what run()'s caller observes
    verifyEntered,          \* test() went on to verify()
    exitCode                \* the process exit code, -1 while running

runVars == <<command, custom_scheduler, dont_remove_scheduler, systemExists, pc,
             vtimeout, wtimeout, timeout, status, polls, runPolls, events, faults,
             ssFailed, runState, exitKind, cleanupRemove, finallyRemove, callerSees,
             verifyEntered, exitCode>>

VARIABLES
    specFiles,              \* expected/*.test.json: file name -> the object in the file
    dataFiles,              \* the other files: path -> content
    nodeOut,                \* the node: pipe id -> the output the pipe has
    vpc,                    \* position in verify / update: "idle" between commands
    vcmd,                   \* the command running, or the last one run
    ncmds,                  \* history: how many commands were started
    test_specs,             \* verify's / update's local test_specs
    todo,                   \* the iterations of the loops over pipes and specs left
    failed_tests,           \* verify's local failed_tests
    results,                \* history: the pipe, spec file and verdict of every spec attempted
    voutcome,               \* how the last command ended
    fetchFailed,            \* history: a fetch of the running / last command raised
    fresh,                  \* history: update completed and nothing changed since
    updated                 \* history: the iterations the last completed update made

verVars == <<specFiles, dataFiles, nodeOut, vpc, vcmd, ncmds, test_specs, todo,
             failed_tests, results, voutcome, fetchFailed, fresh, updated>>

VARIABLES
    op,                     \* the function or command applied to input, "none" before
    input,                  \* the arguments and files the function is applied to
    output                  \* what it returned or left behind

fnVars == <<op, input, output>>

vars == <<runVars, verVars, fnVars>>

(* ---------------------------------------------------------------------- *)
(* Helpers                                                                 *)
(* ---------------------------------------------------------------------- *)

\* The values the scheduler's status endpoint can make get_scheduler_status
\* return: the state of a json reply, or "unknown" for a non-json reply.
Statuses == {"init", "running", "success", "failed", "unknown"}

\* A status poll's result: a status, or "error" when the poll raised.
PollResults == Statuses \cup {"error"}

\* The history of polls, collapsed to <<"more">> past MaxHist entries.
Record(hist, r) ==
    IF hist = <<"more">> \/ Len(hist) >= MaxHist THEN <<"more">> ELSE Append(hist, r)

\* sleep_interval = args.scheduler_poll_frequency/1000
sleep_interval == SchedulerPollFrequency \div 1000

\* The lowest value the model lets a timeout budget reach.
TimeoutFloor == 0 - (MaxOverrun * sleep_interval)

\* timeout -= sleep_interval, kept above the model's floor
Decrement(t, by) == IF t - by < TimeoutFloor THEN t ELSE t - by

\* The number of polls a budget of Timeout seconds pays for.
RunPollBudget == Timeout \div sleep_interval

\* runPolls + 1, saturating past the budget
CountPoll(n) == IF n >= RunPollBudget + MaxOverrun THEN n ELSE n + 1

(* ---------------------------------------------------------------------- *)
(* SesamNode calls, as the effect they have on the node and on the history *)
(* ---------------------------------------------------------------------- *)

\* remove_system returns: the system, when there is one, is deleted;
\* otherwise only a warning is logged.
RemoveSystemReturns ==
    /\ systemExists' = FALSE
    /\ events' = Append(events, IF systemExists THEN "remove" ELSE "remove_absent")

\* remove_system raises (get_system or system.delete() failed).
RemoveSystemRaises ==
    /\ UNCHANGED systemExists
    /\ events' = Append(events, "remove_raised")

\* get_scheduler_status: microservice_get_proxy_request raises when the system
\* does not exist; otherwise the node's reply decides.
PollOutcomes == IF systemExists THEN PollResults ELSE {"error"}

\* if self.args.dont_remove_scheduler is False:
MutShouldRemove == TRUE
ShouldRemove == dont_remove_scheduler = FALSE

\* The branch run's loop takes on a status: "break" on the success marker,
\* "return" on the failure marker, "sleep" on anything else.
MutRunLoopBranch(s) ==
    IF s = "success" THEN "break" ELSE "sleep"
RunLoopBranch(s) ==
    IF s = "success" THEN "break"
    ELSE IF s = "failed" THEN "return"
    ELSE "sleep"

\* start_scheduler's except handler is entered from step `step`.
Fail(step) ==
    /\ ssFailed' = step
    /\ runState' = "failed"
    /\ pc' = "ss_except"

(* ---------------------------------------------------------------------- *)
(* State after argument parsing                                            *)
(* ---------------------------------------------------------------------- *)

InitRun ==
    /\ command \in {"run", "test", "upload", "download", "wipe"}
    /\ custom_scheduler \in BOOLEAN
    /\ dont_remove_scheduler \in BOOLEAN
    /\ systemExists \in BOOLEAN
    /\ pc = "main"
    /\ vtimeout = AddSystemTimeout
    /\ wtimeout = Timeout
    /\ timeout = Timeout
    /\ status = "none"
    /\ polls = <<>>
    /\ runPolls = 0
    /\ events = <<>>
    /\ faults = FALSE
    /\ ssFailed = "none"
    /\ runState = "absent"
    /\ exitKind = "none"
    /\ cleanupRemove = "none"
    /\ finallyRemove = "none"
    /\ callerSees = "pending"
    /\ verifyEntered = FALSE
    /\ exitCode = -1

(* ---------------------------------------------------------------------- *)
(* __main__, test(), upload(), wipe() and download()                       *)
(* ---------------------------------------------------------------------- *)

\* The command dispatch of __main__ for run and test.  test() uploads
\* first: put_config(.., force=True) replaces the node's config, so that
\* the node holds a system under the scheduler's id afterwards exactly when
\* the uploaded config has one; a failing upload ends the command.
Main ==
    /\ pc = "main"
    /\ command \in {"run", "test"}
    /\ UNCHANGED <<verVars, fnVars>>
    /\ \/ /\ command = "run"
          /\ pc' = "ss_get_system"
          /\ UNCHANGED <<systemExists, faults, exitCode>>
       \/ /\ command = "test"
          /\ systemExists' \in BOOLEAN
          /\ pc' = "ss_get_system"
          /\ UNCHANGED <<faults, exitCode>>
       \/ /\ command = "test"
          /\ faults' = TRUE
          /\ exitCode' = 1
          /\ pc' = "exit"
          /\ UNCHANGED systemExists
    /\ UNCHANGED <<command, custom_scheduler, dont_remove_scheduler,
                   vtimeout, wtimeout, timeout, status, polls, runPolls, events,
                   ssFailed, runState, exitKind, cleanupRemove, finallyRemove, callerSees, verifyEntered>>

\* upload(): the environment variables and then the config are put; the
\* config replaces the node's.  A step that raises ends the command with 1.
Upload ==
    /\ pc = "main"
    /\ command = "upload"
    /\ UNCHANGED <<verVars, fnVars>>
    /\ \/ /\ systemExists' \in BOOLEAN
          /\ exitCode' = 0
          /\ UNCHANGED faults
       \/ /\ faults' = TRUE
          /\ exitCode' = 1
          /\ UNCHANGED systemExists
    /\ pc' = "exit"
    /\ UNCHANGED <<command, custom_scheduler, dont_remove_scheduler,
                   vtimeout, wtimeout, timeout, status, polls, runPolls, events,
                   ssFailed, runState, exitKind, cleanupRemove, finallyRemove, callerSees, verifyEntered>>

\* wipe(): put_config([], force=True) leaves the node without systems; it,
\* or one of the steps after it (put_env, remove_all_datasets), may raise.
Wipe ==
    /\ pc = "main"
    /\ command = "wipe"
    /\ UNCHANGED <<verVars, fnVars>>
    /\ \/ /\ systemExists' = FALSE
          /\ exitCode' = 0
          /\ UNCHANGED faults
       \/ /\ systemExists' = FALSE
          /\ faults' = TRUE
          /\ exitCode' = 1
       \/ /\ faults' = TRUE
          /\ exitCode' = 1
          /\ UNCHANGED systemExists
    /\ pc' = "exit"
    /\ UNCHANGED <<command, custom_scheduler, dont_remove_scheduler,
                   vtimeout, wtimeout, timeout, status, polls, runPolls, events,
                   ssFailed, runState, exitKind, cleanupRemove, finallyRemove, callerSees, verifyEntered>>

\* download(), its first step: without a custom scheduler the scheduler's
\* system is looked up, whatever dont_remove_scheduler says.
Download_GetSystem ==
    /\ pc = "main"
    /\ command = "download"
    /\ UNCHANGED <<verVars, fnVars>>
    /\ \/ /\ custom_scheduler
          /\ pc' = "dl_config"
          /\ UNCHANGED <<faults, exitCode>>
       \/ /\ ~custom_scheduler
          /\ pc' = IF systemExists THEN "dl_remove" ELSE "dl_config"
          /\ UNCHANGED <<faults, exitCode>>
       \/ /\ ~custom_scheduler
          /\ faults' = TRUE
          /\ exitCode' = 1
          /\ pc' = "exit"
    /\ UNCHANGED <<command, custom_scheduler, dont_remove_scheduler, systemExists,
                   vtimeout, wtimeout, timeout, status, polls, runPolls, events,
                   ssFailed, runState, exitKind, cleanupRemove, finallyRemove, callerSees, verifyEntered>>

\* download(): self.sesam_node.remove_system(args.scheduler_id); an error
\* is logged and raised again.
Download_Remove ==
    /\ pc = "dl_remove"
    /\ UNCHANGED <<verVars, fnVars>>
    /\ \/ /\ RemoveSystemReturns
          /\ pc' = "dl_config"
          /\ UNCHANGED <<faults, exitCode>>
       \/ /\ RemoveSystemRaises
          /\ faults' = TRUE
          /\ exitCode' = 1
          /\ pc' = "exit"
    /\ UNCHANGED <<command, custom_scheduler, dont_remove_scheduler,
                   vtimeout, wtimeout, timeout, status, polls, runPolls,
                   ssFailed, runState, exitKind, cleanupRemove, finallyRemove, callerSees, verifyEntered>>

\* download(): get_config and extractall; either may raise.
Download_Config ==
    /\ pc = "dl_config"
    /\ UNCHANGED <<verVars, fnVars>>
    /\ \/ /\ exitCode' = 0
          /\ UNCHANGED faults
       \/ /\ faults' = TRUE
          /\ exitCode' = 1
    /\ pc' = "exit"
    /\ UNCHANGED <<command, custom_scheduler, dont_remove_scheduler, systemExists,
                   vtimeout, wtimeout, timeout, status, polls, runPolls, events,
                   ssFailed, runState, exitKind, cleanupRemove, finallyRemove, callerSees, verifyEntered>>

(* ---------------------------------------------------------------------- *)
(* start_scheduler                                                         *)
(* ---------------------------------------------------------------------- *)

\* if self.sesam_node.get_system(self.args.scheduler_id) is not None:
SS_GetSystem ==
    /\ pc = "ss_get_system"
    /\ UNCHANGED <<verVars, fnVars>>
    /\ \/ /\ pc' = IF systemExists THEN "ss_remove_old" ELSE "ss_add_system"
          /\ UNCHANGED <<faults, ssFailed, runState>>
       \/ /\ faults' = TRUE
          /\ Fail("get_system")
    /\ UNCHANGED <<command, custom_scheduler, dont_remove_scheduler, systemExists,
                   vtimeout, wtimeout, timeout, status, polls, runPolls, events,
                   exitKind, cleanupRemove, finallyRemove, callerSees, verifyEntered, exitCode>>

\* self.sesam_node.remove_system(self.args.scheduler_id), before anything else
SS_RemoveOld ==
    /\ pc = "ss_remove_old"
    /\ UNCHANGED <<verVars, fnVars>>
    /\ \/ /\ RemoveSystemReturns
          /\ pc' = "ss_add_system"
          /\ UNCHANGED <<faults, ssFailed, runState>>
       \/ /\ RemoveSystemRaises
          /\ faults' = TRUE
          /\ Fail("remove_old")
    /\ UNCHANGED <<command, custom_scheduler, dont_remove_scheduler,
                   vtimeout, wtimeout, timeout, status, polls, runPolls,
                   exitKind, cleanupRemove, finallyRemove, callerSees, verifyEntered, exitCode>>

\* if not self.args.custom_scheduler: ... add_system(scheduler_config, verify=True)
\* up to the api's add_systems call
SS_AddSystem ==
    /\ pc = "ss_add_system"
    /\ UNCHANGED <<verVars, fnVars>>
    /\ IF custom_scheduler
       THEN /\ pc' = "ss_wait"
            /\ UNCHANGED <<systemExists, events, vtimeout, faults, ssFailed, runState>>
       ELSE \/ /\ systemExists' = TRUE
               /\ events' = Append(events, "add")
               /\ vtimeout' = AddSystemTimeout
               /\ runState' = "provisioned"
               /\ pc' = "ss_verify"
               /\ UNCHANGED <<faults, ssFailed>>
            \/ /\ faults' = TRUE
               /\ Fail("add_system")
               /\ UNCHANGED <<systemExists, events, vtimeout>>
    /\ UNCHANGED <<command, custom_scheduler, dont_remove_scheduler,
                   wtimeout, timeout, status, polls, runPolls,
                   exitKind, cleanupRemove, finallyRemove, callerSees, verifyEntered, exitCode>>

\* One pass of add_system's verification loop; False is returned once the
\* budget is spent, and start_scheduler raises on it.  A local that is not
\* read again (here and below) is set back to its initial value.
SS_Verify ==
    /\ pc = "ss_verify"
    /\ UNCHANGED <<verVars, fnVars>>
    /\ IF vtimeout > 0
       THEN \/ /\ pc' = "ss_wait"
               /\ vtimeout' = AddSystemTimeout
               /\ UNCHANGED <<ssFailed, runState>>
            \/ /\ vtimeout' = vtimeout - SleepTime
               /\ UNCHANGED <<pc, ssFailed, runState>>
       ELSE /\ Fail("verify")
            /\ vtimeout' = AddSystemTimeout
    /\ UNCHANGED <<command, custom_scheduler, dont_remove_scheduler, systemExists,
                   wtimeout, timeout, status, polls, runPolls, events, faults,
                   exitKind, cleanupRemove, finallyRemove, callerSees, verifyEntered, exitCode>>

\* wait_for_microservice, up to its loop: the system must exist
SS_Wait ==
    /\ pc = "ss_wait"
    /\ UNCHANGED <<verVars, fnVars>>
    /\ \/ /\ systemExists
          /\ wtimeout' = Timeout
          /\ pc' = "ss_wait_loop"
          /\ UNCHANGED <<faults, ssFailed, runState>>
       \/ /\ ~systemExists
          /\ Fail("wait_no_system")
          /\ UNCHANGED <<wtimeout, faults>>
       \/ /\ faults' = TRUE
          /\ Fail("wait_get_system")
          /\ UNCHANGED wtimeout
    /\ UNCHANGED <<command, custom_scheduler, dont_remove_scheduler, systemExists,
                   vtimeout, timeout, status, polls, runPolls, events,
                   exitKind, cleanupRemove, finallyRemove, callerSees, verifyEntered, exitCode>>

\* One pass of wait_for_microservice's loop; False is returned once the
\* budget is spent, and start_scheduler raises on it.
SS_WaitLoop ==
    /\ pc = "ss_wait_loop"
    /\ UNCHANGED <<verVars, fnVars>>
    /\ IF wtimeout > 0
       THEN \/ /\ pc' = "ss_init_loop"
               /\ runState' = "awaiting-init"
               /\ wtimeout' = Timeout
               /\ UNCHANGED ssFailed
            \/ /\ wtimeout' = wtimeout - SleepTime
               /\ UNCHANGED <<pc, ssFailed, runState>>
       ELSE /\ Fail("wait_timeout")
            /\ wtimeout' = Timeout
    /\ UNCHANGED <<command, custom_scheduler, dont_remove_scheduler, systemExists,
                   vtimeout, timeout, status, polls, runPolls, events, faults,
                   exitKind, cleanupRemove, finallyRemove, callerSees, verifyEntered, exitCode>>

\* The condition of the loop that waits for "init".
InitLoopContinues == sleep_interval > 0

\* One pass of the loop that waits for the "init" status, and the check
\* made when the loop is left without it.
SS_InitLoop ==
    /\ pc = "ss_init_loop"
    /\ UNCHANGED <<verVars, fnVars>>
    /\ IF InitLoopContinues
       THEN \E r \in PollOutcomes :
               /\ polls' = Record(polls, r)
               /\ IF r = "init"
                  THEN /\ pc' = "ss_post"
                       /\ timeout' = Timeout
                  ELSE /\ timeout' = Decrement(timeout, sleep_interval)
                       /\ UNCHANGED pc
               /\ UNCHANGED <<ssFailed, runState>>
       ELSE /\ Fail("init_timeout")
            /\ UNCHANGED <<polls, timeout>>
    /\ UNCHANGED <<command, custom_scheduler, dont_remove_scheduler, systemExists,
                   vtimeout, wtimeout, status, runPolls, events, faults,
                   exitKind, cleanupRemove, finallyRemove, callerSees, verifyEntered, exitCode>>

\* microservice_post_proxy_request(scheduler_id, "start", ...)
SS_Post ==
    /\ pc = "ss_post"
    /\ UNCHANGED <<verVars, fnVars>>
    /\ \/ /\ systemExists
          /\ runState' = "running"
          /\ pc' = "run_loop"
          /\ UNCHANGED <<faults, ssFailed>>
       \/ /\ faults' = TRUE
          /\ Fail("start")
    /\ UNCHANGED <<command, custom_scheduler, dont_remove_scheduler, systemExists,
                   vtimeout, wtimeout, timeout, status, polls, runPolls, events,
                   exitKind, cleanupRemove, finallyRemove, callerSees, verifyEntered, exitCode>>

\* except BaseException: the scheduler log is fetched for the debug message;
\* a failing fetch raises out of the handler, out of start_scheduler and out
\* of run, whose try block has not been entered yet.
SS_Except ==
    /\ pc = "ss_except"
    /\ UNCHANGED <<verVars, fnVars>>
    /\ \/ /\ pc' = "ss_cleanup"
          /\ UNCHANGED <<faults, callerSees>>
       \/ /\ faults' = TRUE
          /\ callerSees' = "raised"
          /\ pc' = "run_returned"
    /\ UNCHANGED <<command, custom_scheduler, dont_remove_scheduler, systemExists,
                   vtimeout, wtimeout, timeout, status, polls, runPolls, events,
                   ssFailed, runState, exitKind, cleanupRemove, finallyRemove, verifyEntered,
                   exitCode>>

\* The handler's removal of the scheduler; an error of remove_system is
\* logged and swallowed.  start_scheduler then returns normally.
SS_Cleanup ==
    /\ pc = "ss_cleanup"
    /\ UNCHANGED <<verVars, fnVars>>
    /\ IF ShouldRemove
       THEN \/ /\ RemoveSystemReturns
               /\ cleanupRemove' = "returned"
               /\ UNCHANGED faults
            \/ /\ RemoveSystemRaises
               /\ cleanupRemove' = "raised"
               /\ faults' = TRUE
       ELSE /\ cleanupRemove' = "skipped"
            /\ UNCHANGED <<systemExists, events, faults>>
    /\ pc' = "run_loop"
    /\ UNCHANGED <<command, custom_scheduler, dont_remove_scheduler,
                   vtimeout, wtimeout, timeout, status, polls, runPolls,
                   ssFailed, runState, exitKind, finallyRemove, callerSees,
                   verifyEntered, exitCode>>

(* ---------------------------------------------------------------------- *)
(* run                                                                     *)
(* ---------------------------------------------------------------------- *)

\* One pass of run's while True loop: the status poll and the branch on it.
\* A poll that raises leaves the try block through except ... raise.
Run_Poll ==
    /\ pc = "run_loop"
    /\ UNCHANGED <<verVars, fnVars>>
    /\ \E r \in PollOutcomes :
          /\ polls' = Record(polls, r)
          /\ runPolls' = CountPoll(runPolls)
          /\ IF r = "error"
             THEN /\ exitKind' = "raise"
                  /\ runState' = "failed"
                  /\ pc' = "run_finally"
                  /\ UNCHANGED status
             ELSE /\ status' = r
                  /\ CASE RunLoopBranch(r) = "break" ->
                            /\ exitKind' = "break"
                            /\ runState' = "succeeded"
                            /\ pc' = "run_finally"
                       [] RunLoopBranch(r) = "return" ->
                            /\ exitKind' = "return"
                            /\ runState' = "failed"
                            /\ pc' = "run_finally"
                       [] OTHER ->
                            UNCHANGED <<exitKind, runState, pc>>
    /\ UNCHANGED <<command, custom_scheduler, dont_remove_scheduler, systemExists,
                   vtimeout, wtimeout, timeout, events, faults, ssFailed,
                   cleanupRemove, finallyRemove, callerSees, verifyEntered, exitCode>>

\* The process is interrupted (KeyboardInterrupt) inside run's try block:
\* except BaseException logs and raises again.
Run_Interrupt ==
    /\ pc = "run_loop"
    /\ UNCHANGED <<verVars, fnVars>>
    /\ exitKind' = "interrupt"
    /\ runState' = "failed"
    /\ faults' = TRUE
    /\ pc' = "run_finally"
    /\ UNCHANGED <<command, custom_scheduler, dont_remove_scheduler, systemExists,
                   vtimeout, wtimeout, timeout, status, polls, runPolls, events,
                   ssFailed, cleanupRemove, finallyRemove, callerSees, verifyEntered,
                   exitCode>>

\* What run's caller observes when the finally clause itself does not raise:
\* break falls through to the last log line, return returns, both normally.
OutcomeOf(kind) == IF kind \in {"break", "return"} THEN "returned" ELSE "raised"

\* finally: the scheduler is removed unless it is to be kept; an error of
\* remove_system raises out of run.
Run_Finally ==
    /\ pc = "run_finally"
    /\ UNCHANGED <<verVars, fnVars>>
    /\ IF ShouldRemove
       THEN \/ /\ RemoveSystemReturns
               /\ finallyRemove' = "returned"
               /\ callerSees' = OutcomeOf(exitKind)
               /\ UNCHANGED faults
            \/ /\ RemoveSystemRaises
               /\ finallyRemove' = "raised"
               /\ callerSees' = "raised"
               /\ faults' = TRUE
       ELSE /\ finallyRemove' = "skipped"
            /\ callerSees' = OutcomeOf(exitKind)
            /\ UNCHANGED <<systemExists, events, faults>>
    /\ pc' = "run_returned"
    /\ UNCHANGED <<command, custom_scheduler, dont_remove_scheduler,
                   vtimeout, wtimeout, timeout, status, polls, runPolls,
                   ssFailed, runState, exitKind, cleanupRemove, verifyEntered,
                   exitCode>>

\* After run(): the run command ends; test() (with the default of one run)
\* goes on to verify() when run returned, and verify() passes or raises;
\* __main__ exits with 1 on any exception and with 0 otherwise.
AfterRun ==
    /\ pc = "run_returned"
    /\ UNCHANGED <<verVars, fnVars>>
    /\ \/ /\ callerSees = "raised"
          /\ exitCode' = 1
          /\ UNCHANGED verifyEntered
       \/ /\ callerSees = "returned"
          /\ command = "run"
          /\ exitCode' = 0
          /\ UNCHANGED verifyEntered
       \/ /\ callerSees = "returned"
          /\ command = "test"
          /\ verifyEntered' = TRUE
          /\ exitCode' \in {0, 1}
    /\ pc' = "exit"
    /\ UNCHANGED <<command, custom_scheduler, dont_remove_scheduler, systemExists,
                   vtimeout, wtimeout, timeout, status, polls, runPolls, events,
                   faults, ssFailed, runState, exitKind, cleanupRemove, finallyRemove,
                   callerSees>>

(* ====================================================================== *)
(* The output verification engine                                          *)
(* ====================================================================== *)

(* ---------------------------------------------------------------------- *)
(* Text.  A Python str is a sequence of one-character strings.             *)
(* ---------------------------------------------------------------------- *)

\* The characters that occur in the model's keys, ids, patterns and numbers,
\* in code point order.
Chars == <<"*", ".", "0", "1", "2", "3", "4", "5", "?", "_",
           "a", "b", "c", "d", "e", "i", "l", "m", "s", "t", "v">>

\* The position of a character in the code point order.
Ord(c) == CHOOSE i \in 1..Len(Chars) : Chars[i] = c

\* a < b for str (lexicographic by code point)
RECURSIVE StrLess(_, _)
StrLess(a, b) ==
    IF b = <<>> THEN FALSE
    ELSE IF a = <<>> THEN TRUE
    ELSE IF Head(a) = Head(b) THEN StrLess(Tail(a), Tail(b))
    ELSE Ord(Head(a)) < Ord(Head(b))

\* s.endswith(suffix)
EndsWith(s, suffix) ==
    /\ Len(s) >= Len(suffix)
    /\ SubSeq(s, Len(s) - Len(suffix) + 1, Len(s)) = suffix

\* "".join(parts)
RECURSIVE JoinEmpty(_)
JoinEmpty(parts) ==
    IF parts = <<>> THEN <<>> ELSE Head(parts) \o JoinEmpty(Tail(parts))

\* fnmatch.fnmatch(name, pat) on a POSIX system, for patterns made of
\* literal characters, '*' and '?'.
RECURSIVE FnMatch(_, _)
FnMatch(name, pat) ==
    IF pat = <<>> THEN name = <<>>
    ELSE IF Head(pat) = "*"
         THEN \/ FnMatch(name, Tail(pat))
              \/ name # <<>> /\ FnMatch(Tail(name), pat)
    ELSE /\ name # <<>>
         /\ Head(pat) = "?" \/ Head(pat) = Head(name)
         /\ FnMatch(Tail(name), Tail(pat))

(* ---------------------------------------------------------------------- *)
(* JSON values, as json.load / resp.json() build them.                     *)
(* A number carries the text repr() gives it: an int "3", a float "3.0",   *)
(* "3.5" or "1e+16".  A dict is a function from its keys (str) to values.  *)
(* ---------------------------------------------------------------------- *)

JNull == [t |-> "null"]
JBool(b) == [t |-> "bool", b |-> b]
JInt(s) == [t |-> "int", s |-> s]
JFloat(s) == [t |-> "float", s |-> s]
JStr(s) == [t |-> "str", s |-> s]
JList(l) == [t |-> "list", l |-> l]
JDict(d) == [t |-> "dict", d |-> d]

NoDict == [k \in {} |-> JNull]

\* The keys of a dict in sorted order (json.dumps(sort_keys=True)).
RECURSIVE SortedKeys(_)
SortedKeys(ks) ==
    IF ks = {} THEN <<>>
    ELSE LET m == CHOOSE k \in ks : \A o \in ks \ {k} : StrLess(k, o)
         IN <<m>> \o SortedKeys(ks \ {m})

\* int(value) for a float whose str() ends in ".0": the text before ".0"
\* (int(-0.0) is 0).
IntOfFloat(s) ==
    LET whole == SubSeq(s, 1, Len(s) - 2)
    IN IF whole = <<"-", "0">> THEN <<"0">> ELSE whole

\* SesamNode._fix_decimal_to_ints
RECURSIVE FixDecimalToInts(_)
FixDecimalToInts(value) ==
    IF value.t = "dict"
    THEN JDict([k \in DOMAIN value.d |-> FixDecimalToInts(value.d[k])])
    ELSE IF value.t = "list"
    THEN JList([i \in 1..Len(value.l) |-> FixDecimalToInts(value.l[i])])
    ELSE IF value.t = "float" /\ EndsWith(value.s, <<".", "0">>)
    THEN JInt(IntOfFloat(value.s))
    ELSE value

(* ---------------------------------------------------------------------- *)
(* json.dumps(.., sort_keys=True) and json.load.  The text is a sequence   *)
(* of tokens (each a str); the white space json.dumps(indent=2) puts       *)
(* between tokens, which json.load skips, is left out.                     *)
(* ---------------------------------------------------------------------- *)

\* The quotation mark that delimits a string token.
Quote == <<"'">>

RECURSIVE Dumps(_)
RECURSIVE DumpsItems(_)
RECURSIVE DumpsPairs(_, _)

\* The items of a list, separated by commas.
DumpsItems(l) ==
    IF l = <<>> THEN <<>>
    ELSE IF Len(l) = 1 THEN Dumps(l[1])
    ELSE Dumps(l[1]) \o <<<<",">>>> \o DumpsItems(Tail(l))

\* The key: value pairs of a dict for the keys ks, separated by commas.
DumpsPairs(d, ks) ==
    IF ks = <<>> THEN <<>>
    ELSE LET pair == <<Quote \o Head(ks) \o Quote, <<":">>>> \o Dumps(d[Head(ks)])
         IN IF Len(ks) = 1 THEN pair
            ELSE pair \o <<<<",">>>> \o DumpsPairs(d, Tail(ks))

Dumps(v) ==
    CASE v.t = "null" -> <<<<"n", "u", "l", "l">>>>
      [] v.t = "bool" -> IF v.b THEN <<<<"t", "r", "u", "e">>>>
                         ELSE <<<<"f", "a", "l", "s", "e">>>>
      [] v.t = "int" -> <<v.s>>
      [] v.t = "float" -> <<v.s>>
      [] v.t = "str" -> <<Quote \o v.s \o Quote>>
      [] v.t = "list" -> <<<<"[">>>> \o DumpsItems(v.l) \o <<<<"]">>>>
      [] v.t = "dict" -> <<<<"{">>>> \o DumpsPairs(v.d, SortedKeys(DOMAIN v.d))
                         \o <<<<"}">>>>

Digits == <<"0", "1", "2", "3", "4", "5", "6", "7", "8", "9">>

DigitVal(c) == (CHOOSE i \in 1..Len(Digits) : Digits[i] = c) - 1

\* int(ds) for a sequence of digits
RECURSIVE NatOfDigits(_)
NatOfDigits(ds) ==
    IF ds = <<>> THEN 0
    ELSE NatOfDigits(SubSeq(ds, 1, Len(ds) - 1)) * Len(Digits) + DigitVal(ds[Len(ds)])

\* str(n) for a natural number
RECURSIVE DigitsOfNat(_)
DigitsOfNat(n) ==
    IF n < Len(Digits) THEN <<Digits[n + 1]>>
    ELSE Append(DigitsOfNat(n \div Len(Digits)), Digits[(n % Len(Digits)) + 1])

\* n times "0"
Zeros(n) == [i \in 1..n |-> "0"]

\* ds without its leading zeros
RECURSIVE StripLeadingZeros(_)
StripLeadingZeros(ds) ==
    IF ds # <<>> /\ Head(ds) = "0" THEN StripLeadingZeros(Tail(ds)) ELSE ds

\* ds without its trailing zeros
RECURSIVE StripTrailingZeros(_)
StripTrailingZeros(ds) ==
    IF ds # <<>> /\ ds[Len(ds)] = "0"
    THEN StripTrailingZeros(SubSeq(ds, 1, Len(ds) - 1)) ELSE ds

\* The position of the first of the characters cs in s, or 0
FirstOf(s, cs) ==
    IF \E i \in 1..Len(s) : s[i] \in cs
    THEN CHOOSE i \in 1..Len(s) : s[i] \in cs /\ \A j \in 1..(i - 1) : s[j] \notin cs
    ELSE 0

\* The parts of a JSON number token: the sign, the digits before and after
\* the '.', and the exponent.
NumberParts(tok) ==
    LET neg == Head(tok) = "-"
        body == IF neg THEN Tail(tok) ELSE tok
        epos == FirstOf(body, {"e", "E"})
        mant == IF epos = 0 THEN body ELSE SubSeq(body, 1, epos - 1)
        etext == IF epos = 0 THEN <<>> ELSE SubSeq(body, epos + 1, Len(body))
        edigits == IF etext # <<>> /\ Head(etext) \in {"+", "-"} THEN Tail(etext) ELSE etext
        dot == FirstOf(mant, {"."})
    IN [neg |-> neg,
        int |-> IF dot = 0 THEN mant ELSE SubSeq(mant, 1, dot - 1),
        frac |-> IF dot = 0 THEN <<>> ELSE SubSeq(mant, dot + 1, Len(mant)),
        exp |-> IF etext # <<>> /\ Head(etext) = "-"
                THEN 0 - NatOfDigits(edigits) ELSE NatOfDigits(edigits)]

\* repr(float(tok)), what json.dumps writes for the float json.load makes
\* of the token, for tokens of at most 15 significant digits in the range
\* of a double: the significant digits are those of the token, and the 'e'
\* notation is used for exponents below -4 and from 16 on.
FloatRepr(tok) ==
    LET p == NumberParts(tok)
        all == p.int \o p.frac
        lead == Len(all) - Len(StripLeadingZeros(all))
        sig == StripTrailingZeros(StripLeadingZeros(all))
        x == Len(p.int) - lead - 1 + p.exp
        sign == IF p.neg THEN <<"-">> ELSE <<>>
        absx == IF x < 0 THEN 0 - x ELSE x
    IN IF sig = <<>> THEN sign \o <<"0", ".", "0">>
       ELSE IF x >= -4 /\ x < 16
       THEN (IF x < 0 THEN sign \o <<"0", ".">> \o Zeros(absx - 1) \o sig
             ELSE IF Len(sig) <= x + 1
             THEN sign \o sig \o Zeros(x + 1 - Len(sig)) \o <<".", "0">>
             ELSE sign \o SubSeq(sig, 1, x + 1) \o <<".">> \o SubSeq(sig, x + 2, Len(sig)))
       ELSE sign \o <<Head(sig)>>
            \o (IF Len(sig) > 1 THEN <<".">> \o Tail(sig) ELSE <<>>)
            \o <<"e", IF x < 0 THEN "-" ELSE "+">>
            \o (IF absx < Len(Digits) THEN <<"0">> ELSE <<>>) \o DigitsOfNat(absx)

\* The number json.load makes of a number token: a float when the token
\* has a fraction or an exponent, else an int (the int of "-0" is 0).
ParseNumber(tok) ==
    IF FirstOf(tok, {".", "e", "E"}) # 0 THEN JFloat(FloatRepr(tok))
    ELSE IF tok = <<"-", "0">> THEN JInt(<<"0">>)
    ELSE JInt(tok)

\* json.load: the value that starts at the head of toks, and the tokens
\* that follow it.
RECURSIVE ParseValue(_)
RECURSIVE ParseItems(_, _)
RECURSIVE ParsePairs(_, _)

ParseItems(toks, acc) ==
    IF Head(toks) = <<"]">> THEN [v |-> JList(acc), rest |-> Tail(toks)]
    ELSE LET item == ParseValue(IF Head(toks) = <<",">> THEN Tail(toks) ELSE toks)
         IN ParseItems(item.rest, Append(acc, item.v))

ParsePairs(toks, acc) ==
    IF Head(toks) = <<"}">> THEN [v |-> JDict(acc), rest |-> Tail(toks)]
    ELSE LET ts == IF Head(toks) = <<",">> THEN Tail(toks) ELSE toks
             key == SubSeq(ts[1], 2, Len(ts[1]) - 1)
             item == ParseValue(Tail(Tail(ts)))
         IN ParsePairs(item.rest, (key :> item.v) @@ acc)

ParseValue(toks) ==
    LET tok == Head(toks)
    IN CASE tok = <<"[">> -> ParseItems(Tail(toks), <<>>)
         [] tok = <<"{">> -> ParsePairs(Tail(toks), NoDict)
         [] tok = <<"n", "u", "l", "l">> -> [v |-> JNull, rest |-> Tail(toks)]
         [] tok = <<"t", "r", "u", "e">> -> [v |-> JBool(TRUE), rest |-> Tail(toks)]
         [] tok = <<"f", "a", "l", "s", "e">> -> [v |-> JBool(FALSE), rest |-> Tail(toks)]
         [] Head(tok) = "'" -> [v |-> JStr(SubSeq(tok, 2, Len(tok) - 1)), rest |-> Tail(toks)]
         [] OTHER -> [v |-> ParseNumber(tok), rest |-> Tail(toks)]

Loads(text) == ParseValue(text).v

(* ---------------------------------------------------------------------- *)
(* TestSpec                                                                *)
(* A file name is the sequence of its parts: the directories, the stem and *)
(* the extension, so "expected/foo.test.json" is                           *)
(* <<"expected", "foo", ".test.json">>.                                    *)
(* ---------------------------------------------------------------------- *)

\* TestSpec.__init__: the defaults derived from the file name, updated with
\* the object spec_dict read from the file.
TestSpec(filename, spec_dict) ==
    LET name == SubSeq(filename, 1, Len(filename) - 1)
        defaults == [name |-> name,
                     file |-> Append(name, ".json"),
                     endpoint |-> "json",
                     pipe |-> name[Len(name)]]
    IN [spec_file |-> filename, spec |-> spec_dict @@ defaults]

\* TestSpec.ignore: self._spec.get("ignore", False) is True
Ignore(test_spec) ==
    "ignore" \in DOMAIN test_spec.spec /\ test_spec.spec.ignore = TRUE

\* The path TestSpec.expected_data, expected_entities and
\* update_expected_data open: filename.startswith("expected/") holds when
\* the first part of the name is the directory "expected", that is when a
\* stem and an extension follow it.
ExpectedPath(test_spec) ==
    LET filename == test_spec.spec.file
    IN IF Len(filename) > 2 /\ Head(filename) = "expected"
       THEN filename ELSE <<"expected">> \o filename

\* s.replace("\\.", "."): every backslash that a dot follows is dropped
RECURSIVE ReplaceEscapedDots(_)
ReplaceEscapedDots(s) ==
    IF s = <<>> THEN <<>>
    ELSE IF Len(s) > 1 /\ s[1] = "\\" /\ s[2] = "."
    THEN <<".">> \o ReplaceEscapedDots(SubSeq(s, 3, Len(s)))
    ELSE <<Head(s)>> \o ReplaceEscapedDots(Tail(s))

\* TestSpec.is_path_blacklisted
IsPathBlacklisted(test_spec, path) ==
    /\ "blacklist" \in DOMAIN test_spec.spec
    /\ LET blacklist == test_spec.spec.blacklist
           prop_path == ReplaceEscapedDots(JoinEmpty(path))
       IN \E i \in 1..Len(blacklist) : FnMatch(prop_path, blacklist[i])

(* ---------------------------------------------------------------------- *)
(* filter_entity                                                           *)
(* ---------------------------------------------------------------------- *)

K_id == <<"_", "i", "d">>

K_deleted == <<"_", "d", "e", "l", "e", "t", "e", "d">>

\* The path filter_item hands down to the values of a dict:
\* result[key] = filter_item(parent_path, value)
MutChildPath(parent_path, key) == Append(parent_path, key)
ChildPath(parent_path, key) == parent_path

\* Whether filter_item keeps the key of a dict (and then filters its value,
\* unless the key starts with an underscore).
KeepsKey(test_spec, parent_path, key, value) ==
    IF Head(key) = "_"
    THEN key = K_id \/ (key = K_deleted /\ value = JBool(TRUE))
    ELSE ~IsPathBlacklisted(test_spec, Append(parent_path, key))

\* filter_item that drops one key of a dict only, as a loop that pops from
\* the dict it iterates would.
RECURSIVE MutFilterItem(_, _, _)
MutFilterItem(test_spec, parent_path, item) ==
    IF item.t = "dict"
    THEN LET dropped == {k \in DOMAIN item.d : ~KeepsKey(test_spec, parent_path, k, item.d[k])}
             kept == IF dropped = {} THEN DOMAIN item.d
                     ELSE DOMAIN item.d \ {CHOOSE k \in dropped : TRUE}
         IN JDict([k \in kept |->
                      IF Head(k) = "_" THEN item.d[k]
                      ELSE MutFilterItem(test_spec, ChildPath(parent_path, k), item.d[k])])
    ELSE IF item.t = "list"
    THEN JList([i \in 1..Len(item.l) |-> MutFilterItem(test_spec, parent_path, item.l[i])])
    ELSE item

RECURSIVE FilterItem(_, _, _)
FilterItem(test_spec, parent_path, item) ==
    IF item.t = "dict"
    THEN LET kept == {k \in DOMAIN item.d : KeepsKey(test_spec, parent_path, k, item.d[k])}
         IN JDict([k \in kept |->
                      IF Head(k) = "_" THEN item.d[k]
                      ELSE FilterItem(test_spec, ChildPath(parent_path, k), item.d[k])])
    ELSE IF item.t = "list"
    THEN JList([i \in 1..Len(item.l) |-> FilterItem(test_spec, parent_path, item.l[i])])
    ELSE item

FilterEntity(entity, test_spec) == FilterItem(test_spec, <<>>, entity)

\* sorted(entities, key=lambda e: e['_id']): a stable sort on the _id text
RECURSIVE InsertById(_, _)
InsertById(sorted, e) ==
    IF sorted = <<>> THEN <<e>>
    ELSE IF StrLess(e.d[K_id].s, Head(sorted).d[K_id].s)
    THEN <<e>> \o sorted
    ELSE <<Head(sorted)>> \o InsertById(Tail(sorted), e)

RECURSIVE SortedById(_)
SortedById(entities) ==
    IF entities = <<>> THEN <<>>
    ELSE InsertById(SortedById(SubSeq(entities, 1, Len(entities) - 1)),
                    entities[Len(entities)])

\* sorted([self.filter_entity(e, test_spec) for e in entities], key=_id)
MutCurrentOutput(entities, test_spec) ==
    [i \in 1..Len(entities) |-> FilterEntity(entities[i], test_spec)]
CurrentOutput(entities, test_spec) ==
    SortedById([i \in 1..Len(entities) |-> FilterEntity(entities[i], test_spec)])

(* ---------------------------------------------------------------------- *)
(* Byte strings.  The content of a file or of a reply of the node is one   *)
(* of                                                                      *)
(*   [k |-> "json", text |-> tokens]          a JSON text                   *)
(*   [k |-> "xml", head |-> .., body |-> .., pretty |-> ..]   XML           *)
(*   [k |-> "raw", bytes |-> ..]               anything else, its bytes     *)
(* The head of an XML document is the text of its XML declaration, up to   *)
(* and with "?>" (empty without a declaration), as a sequence of single    *)
(* characters and of the fixed words "<?xml ", "version=", "encoding=",    *)
(* "utf-8", "standalone=" and "?>"; the body names the element tree (the   *)
(* body "bad" is not well-formed) and pretty says whether it is laid out   *)
(* as etree.tostring(pretty_print=True) lays it out.                       *)
(* ---------------------------------------------------------------------- *)

\* A Python slice s[lo:hi] (lo >= 0; a negative hi counts from the end)
PySlice(s, lo, hi) ==
    LET n == Len(s)
        h == IF hi < 0 THEN (IF n + hi < 0 THEN 0 ELSE n + hi)
             ELSE (IF hi > n THEN n ELSE hi)
    IN SubSeq(s, lo + 1, h)

\* s.find(x): the index (from 0) of the first x in s, or -1
Find(s, x) ==
    IF \E i \in 1..Len(s) : s[i] = x
    THEN (CHOOSE i \in 1..Len(s) : s[i] = x /\ \A j \in 1..(i - 1) : s[j] # x) - 1
    ELSE -1

\* s.split(x), for the word x
RECURSIVE Split(_, _)
Split(s, x) ==
    LET i == Find(s, x)
    IN IF i = -1 THEN <<s>>
       ELSE <<PySlice(s, 0, i)>> \o Split(PySlice(s, i + 1, Len(s)), x)

\* SesamCmdClient.find_xml_header_settings, on the head of the data; the
\* standalone it returns is None (has_standalone false) or a text.
StandaloneValue(arg, endix) == PySlice(arg, 1, endix)

FindXmlHeaderSettings(head) ==
    LET xml_declaration == head # <<>> /\ Head(head) = "<?xml "
        end_decl == Find(head, "?>")
        parts == Split(PySlice(head, 0, end_decl), "standalone=")
        arg == parts[2]
        quoted == /\ xml_declaration
                  /\ end_decl > -1
                  /\ Len(parts) > 1
                  /\ arg # <<>>
                  /\ Head(arg) \in {"\"", "'"}
    IN [xml_declaration |-> xml_declaration,
        has_standalone |-> quoted,
        standalone |-> IF quoted
                       THEN StandaloneValue(arg, Find(PySlice(arg, 1, Len(arg)), Head(arg)))
                       ELSE <<>>]

\* The declaration etree.tostring(encoding="utf-8", xml_declaration=..,
\* standalone=..) writes: one is written when asked for or when standalone
\* is not None; a standalone that is not None counts as a truth value.
TostringHead(settings) ==
    IF settings.xml_declaration \/ settings.has_standalone
    THEN <<"<?xml ", "version=", "'", "1", ".", "0", "'", " ",
           "encoding=", "'", "utf-8", "'">>
         \o (IF settings.has_standalone
             THEN <<" ", "standalone=", "'">>
                  \o (IF settings.standalone # <<>> THEN <<"y", "e", "s">> ELSE <<"n", "o">>)
                  \o <<"'">>
             ELSE <<>>)
         \o <<"?>">>
    ELSE <<>>

\* etree.fromstring(xml_data) succeeds
Parses(data) == data.k = "xml" /\ data.body # "bad"

\* etree.tostring(etree.fromstring(xml_data), encoding="utf-8",
\* xml_declaration=.., standalone=.., pretty_print=True) with the settings
\* find_xml_header_settings finds in xml_data (update, bytes_to_xml_string)
XmlToString(xml_data) ==
    [k |-> "xml",
     head |-> TostringHead(FindXmlHeaderSettings(xml_data.head)),
     body |-> xml_data.body,
     pretty |-> TRUE]

(* ---------------------------------------------------------------------- *)
(* The project directory and the node of the verification model            *)
(* ---------------------------------------------------------------------- *)

\* How many commands (sesam update, sesam verify) one history runs.
MaxCommands == 2

\* get_output_pipes() + get_endpoint_pipes(): p1 is an output pipe, p2 an
\* endpoint pipe.
OutputPipes == <<"p1", "p2">>

PipeIds == {OutputPipes[i] : i \in 1..Len(OutputPipes)}

K_val == <<"v", "a", "l">>

\* Entities as the node sends them.
EntityA == JDict((K_id :> JStr(<<"a">>)) @@ (K_val :> JFloat(<<"3", ".", "0">>))
                 @@ (<<"_", "t", "s">> :> JInt(<<"1">>)))

EntityA2 == JDict((K_id :> JStr(<<"a">>)) @@ (K_val :> JInt(<<"4">>))
                  @@ (<<"_", "t", "s">> :> JInt(<<"2">>)))

EntityB == JDict((K_id :> JStr(<<"b">>)) @@ (K_deleted :> JBool(TRUE))
                 @@ (<<"m">> :> JDict(<<"t", "s">> :> JInt(<<"2">>))))

MaxBytes == 2

\* The bytes of the strings: "a", "b", and 0xC3, 0xA9, 0xE9; C3 A9 is the
\* UTF-8 form of U+00E9, a lone E9 its Latin-1 form.
ByteValues == {97, 98, 195, 169, 233}

ByteStrings == UNION {[1..n -> ByteValues] : n \in 0..MaxBytes}

\* A continuation byte of UTF-8: 0x80..0xBF
IsContinuation(b) == b >= 128 /\ b <= 191

\* str(b, encoding="utf-8") for byte strings of one-, two- and three-byte
\* forms: the code points, or the UnicodeDecodeError.
RECURSIVE DecodeUtf8(_)
DecodeUtf8(b) ==
    IF b = <<>> THEN [ok |-> TRUE, text |-> <<>>]
    ELSE LET b1 == b[1]
             n == IF b1 < 128 THEN 1
                  ELSE IF b1 >= 194 /\ b1 <= 223 THEN 2
                  ELSE IF b1 >= 224 /\ b1 <= 239 THEN 3
                  ELSE 0
             wellFormed ==
                 /\ n > 0
                 /\ Len(b) >= n
                 /\ \A i \in 2..n : IsContinuation(b[i])
                 /\ (b1 = 224 => b[2] >= 160)
                 /\ (b1 = 237 => b[2] <= 159)
             point == IF n = 1 THEN b1
                      ELSE IF n = 2 THEN (b1 - 192) * 64 + (b[2] - 128)
                      ELSE (b1 - 224) * 4096 + (b[2] - 128) * 64 + (b[3] - 128)
         IN IF ~wellFormed THEN [ok |-> FALSE, text |-> <<>>]
            ELSE LET rest == DecodeUtf8(SubSeq(b, n + 1, Len(b)))
                 IN IF rest.ok THEN [ok |-> TRUE, text |-> <<point>> \o rest.text]
                    ELSE rest

\* str(b, encoding="latin-1"): every byte is its code point
DecodeLatin1(b) == b

\* Published documents as the node sends them.
XmlOne == [k |-> "xml",
           head |-> <<"<?xml ", "version=", "\"", "1", ".", "0", "\"", " ",
                      "standalone=", "\"", "n", "o", "\"", "?>">>,
           body |-> "doc1", pretty |-> FALSE]

XmlTwo == [k |-> "xml", head |-> <<>>, body |-> "doc2", pretty |-> FALSE]

\* A csv document in ASCII, and one with a lone 0xE9 (Latin-1 text that is
\* no UTF-8 text)
CsvOne == [k |-> "raw", bytes |-> <<97>>]

CsvLatin == [k |-> "raw", bytes |-> <<97, 233>>]

\* What a pipe of the node holds: the entities GET pipes/<id>/entities
\* returns and the content GET publishers/<id>/<type> returns.
NodeOutputs ==
    {[entities |-> <<EntityB, EntityA>>, published |-> XmlOne],
     [entities |-> <<EntityA2>>, published |-> CsvOne],
     [entities |-> <<EntityA2>>, published |-> CsvLatin],
     [entities |-> <<EntityB, EntityA2>>, published |-> XmlTwo]}

NoOptions == [o \in {} |-> TRUE]

NoFiles == [f \in {} |-> NoOptions]

SpecFileName(stem) == <<"expected", stem, ".test.json">>

\* The spec files a project may hold: for each of three file names none, or
\* one of a few objects.
SpecFileSets ==
    {a @@ b @@ c :
        a \in {NoFiles} \cup {SpecFileName("p1") :> d :
                 d \in {NoOptions,
                        [blacklist |-> <<K_val>>],
                        [endpoint |-> "xml"],
                        [endpoint |-> "csv"],
                        [ignore |-> TRUE],
                        [pipe |-> "p2"]}},
        b \in {NoFiles} \cup {SpecFileName("p2") :> d :
                 d \in {NoOptions, [endpoint |-> "xml"]}},
        c \in {NoFiles} \cup {SpecFileName("t") :> d :
                 d \in {[pipe |-> "p1", file |-> <<"p1", ".json">>, blacklist |-> <<K_val>>],
                        [pipe |-> "p2", endpoint |-> "csv"],
                        [pipe |-> "gone"]}}}

\* df without the file at path
RemoveFile(df, path) == [f \in DOMAIN df \ {path} |-> df[f]]

\* df with content written to the file at path
WriteFile(df, path, content) == (path :> content) @@ df

\* glob.glob("expected/*.test.json"): the names, in any order
GlobOrders(names) ==
    {o \in [1..Cardinality(names) -> names] : \A n \in names : \E i \in DOMAIN o : o[i] = n}

(* ---------------------------------------------------------------------- *)
(* load_test_specs                                                         *)
(* ---------------------------------------------------------------------- *)

NoSpecs == [p \in {} |-> <<>>]

\* test_specs[pipe_id].append(test_spec), after the setdefault to []
AddSpec(acc, pipe_id, test_spec) ==
    (pipe_id :> Append(IF pipe_id \in DOMAIN acc THEN acc[pipe_id] ELSE <<>>, test_spec))
    @@ acc

\* The loop over the spec files.  os.remove raises when the file it names
\* is not there.
RECURSIVE LoadSpecFiles(_, _, _, _, _)
LoadSpecFiles(files, sf, df, update, acc) ==
    IF files = <<>> THEN [raised |-> FALSE, test_specs |-> acc, data |-> df]
    ELSE LET test_spec == TestSpec(Head(files), sf[Head(files)])
             pipe_id == test_spec.spec.pipe
             output_filename == test_spec.spec.file
         IN IF Ignore(test_spec)
            THEN IF (<<"expected">> \o output_filename) \in DOMAIN df /\ update
                 THEN IF output_filename \in DOMAIN df
                      THEN LoadSpecFiles(Tail(files), sf, RemoveFile(df, output_filename),
                                         update, AddSpec(acc, pipe_id, test_spec))
                      ELSE [raised |-> TRUE, test_specs |-> acc, data |-> df]
                 ELSE LoadSpecFiles(Tail(files), sf, df, update,
                                    AddSpec(acc, pipe_id, test_spec))
            ELSE IF pipe_id \notin PipeIds
            THEN LoadSpecFiles(Tail(files), sf, df, update, acc)
            ELSE LoadSpecFiles(Tail(files), sf, df, update, AddSpec(acc, pipe_id, test_spec))

\* if update: an empty spec file for every pipe without a spec
MutAddPlaceholders(pipes, sf, acc) == [spec_files |-> sf, test_specs |-> acc]
RECURSIVE AddPlaceholders(_, _, _)
AddPlaceholders(pipes, sf, acc) ==
    IF pipes = <<>> THEN [spec_files |-> sf, test_specs |-> acc]
    ELSE LET filename == SpecFileName(Head(pipes))
         IN IF Head(pipes) \in DOMAIN acc
            THEN AddPlaceholders(Tail(pipes), sf, acc)
            ELSE AddPlaceholders(Tail(pipes), (filename :> NoOptions) @@ sf,
                                 (Head(pipes) :> <<TestSpec(filename, NoOptions)>>) @@ acc)

\* load_test_specs(existing_output_pipes, update), with the spec files in
\* the order glob gives them: the map it returns, the files it leaves, and
\* whether it raised.
LoadTestSpecs(files, sf, df, update) ==
    LET loop == LoadSpecFiles(files, sf, df, update, NoSpecs)
        placed == AddPlaceholders(OutputPipes, sf, loop.test_specs)
    IN IF loop.raised \/ ~update
       THEN [raised |-> loop.raised, test_specs |-> loop.test_specs,
             spec_files |-> sf, data |-> loop.data]
       ELSE [raised |-> FALSE, test_specs |-> placed.test_specs,
             spec_files |-> placed.spec_files, data |-> loop.data]

\* if test_spec.ignore is True: continue
NotIgnored(w) == ~Ignore(w.test_spec)

\* for pipe in output_pipes.values(): if pipe.id in test_specs:
\*     for test_spec in test_specs[pipe.id]:
RECURSIVE WorkList(_, _)
WorkList(pipes, specs) ==
    IF pipes = <<>> THEN <<>>
    ELSE (IF Head(pipes) \in DOMAIN specs
          THEN [i \in 1..Len(specs[Head(pipes)]) |->
                   [pipe |-> Head(pipes), test_spec |-> specs[Head(pipes)][i]]]
          ELSE <<>>)
         \o WorkList(Tail(pipes), specs)

(* ---------------------------------------------------------------------- *)
(* The comparisons of verify and the content update records                *)
(* ---------------------------------------------------------------------- *)

\* get_pipe_entities
GetPipeEntities(out) == FixDecimalToInts(JList(out.entities)).l

\* The structured comparison: "length" and "content" are the two failures.
MutJsonVerdict(expected_output, current_output) ==
    IF Dumps(JList(expected_output)) # Dumps(JList(current_output)) THEN "content"
    ELSE IF Len(current_output) # Len(expected_output) THEN "length"
    ELSE "equal"
JsonVerdict(expected_output, current_output) ==
    IF Len(current_output) # Len(expected_output) THEN "length"
    ELSE IF Dumps(JList(expected_output)) # Dumps(JList(current_output)) THEN "content"
    ELSE "equal"

\* The xml comparison: both sides through bytes_to_xml_string; when that
\* raises, expected_output (a str by then if it was parsed) and
\* current_output are compared as they are.
XmlVerdict(expected_output, current_output) ==
    IF Parses(expected_output) /\ Parses(current_output)
    THEN (IF XmlToString(expected_output) # XmlToString(current_output)
          THEN "content" ELSE "equal")
    ELSE IF Parses(expected_output) THEN "content"
    ELSE IF expected_output # current_output THEN "content"
    ELSE "equal"

\* str(data, encoding="utf-8") returns: the JSON texts and the XML
\* documents of the model are ASCII; other content is decoded byte by byte.
Utf8Decodes(data) == data.k = "raw" => DecodeUtf8(data.bytes).ok

\* The comparison of any other endpoint: byte by byte.  For the diff of
\* two contents that differ both are decoded; when the expected one is
\* UTF-8 text and the current one is not, expected_output is a str by the
\* time the Latin-1 fallback runs, and str(expected_output, ..) raises
\* TypeError, which nothing catches.
RawVerdict(expected_output, current_output) ==
    IF expected_output = current_output THEN "equal"
    ELSE IF Utf8Decodes(expected_output) /\ ~Utf8Decodes(current_output)
    THEN "content_raised"
    ELSE "content"

\* test_spec.expected_entities / expected_data returns: the file is there
\* and, for expected_entities, json.load reads it.
ReadsExpected(test_spec, df) ==
    /\ ExpectedPath(test_spec) \in DOMAIN df
    /\ test_spec.spec.endpoint = "json" => df[ExpectedPath(test_spec)].k = "json"

\* One iteration of verify's loop over the specs, for a spec whose expected
\* file was read and whose fetch returned: "equal", the kind of mismatch, or
\* "content_raised" for a mismatch after which the iteration raises.
SpecVerdict(test_spec, df, out) ==
    LET expected == df[ExpectedPath(test_spec)]
    IN IF test_spec.spec.endpoint = "json"
       THEN JsonVerdict(Loads(expected.text).l,
                        CurrentOutput(GetPipeEntities(out), test_spec))
       ELSE IF test_spec.spec.endpoint = "xml"
       THEN XmlVerdict(expected, out.published)
       ELSE RawVerdict(expected, out.published)

\* update's current_output for a spec whose fetch returned;
\* etree.fromstring raises on what is not XML.
UpdateRaises(test_spec, out) ==
    test_spec.spec.endpoint = "xml" /\ ~Parses(out.published)

MutUpdateOutput(test_spec, out) ==
    IF test_spec.spec.endpoint = "json"
    THEN [k |-> "json", text |-> Dumps(JList(out.entities))]
    ELSE out.published
UpdateOutput(test_spec, out) ==
    IF test_spec.spec.endpoint = "json"
    THEN [k |-> "json",
          text |-> Dumps(JList(CurrentOutput(GetPipeEntities(out), test_spec)))]
    ELSE IF test_spec.spec.endpoint = "xml"
    THEN XmlToString(out.published)
    ELSE out.published

(* ---------------------------------------------------------------------- *)
(* verify and update, one step per spec                                    *)
(* ---------------------------------------------------------------------- *)

\* No single function is applied (the state these variables have in the
\* histories of the run-loop and of the verification engine).
FnIdle ==
    /\ op = "none"
    /\ input = <<>>
    /\ output = <<>>

\* No command of the verification engine runs (the state it has in the
\* histories of the run-loop).
VerifyIdle ==
    /\ vpc = "idle"
    /\ vcmd = "none"
    /\ ncmds = 0
    /\ test_specs = NoSpecs
    /\ todo = <<>>
    /\ failed_tests = <<>>
    /\ results = <<>>
    /\ voutcome = "none"
    /\ fetchFailed = FALSE
    /\ fresh = FALSE
    /\ updated = <<>>

\* The run-loop takes no part in the histories of the verification engine.
RunIdle ==
    /\ command = "verify"
    /\ custom_scheduler = FALSE
    /\ dont_remove_scheduler = FALSE
    /\ systemExists = FALSE
    /\ pc = "exit"
    /\ vtimeout = AddSystemTimeout
    /\ wtimeout = Timeout
    /\ timeout = Timeout
    /\ status = "none"
    /\ polls = <<>>
    /\ runPolls = 0
    /\ events = <<>>
    /\ faults = FALSE
    /\ ssFailed = "none"
    /\ runState = "absent"
    /\ exitKind = "none"
    /\ cleanupRemove = "none"
    /\ finallyRemove = "none"
    /\ callerSees = "pending"
    /\ verifyEntered = FALSE
    /\ exitCode = -1

\* A project directory with spec files and no expected files yet, and a
\* node whose pipes have run.
InitVerify ==
    /\ specFiles \in SpecFileSets
    /\ dataFiles = NoFiles
    /\ nodeOut \in [PipeIds -> NodeOutputs]
    /\ VerifyIdle
    /\ RunIdle
    /\ FnIdle

\* verify(), up to its loop: the pipes are listed (get_output_pipes and
\* get_endpoint_pipes, one get_pipes request each) and the specs are
\* loaded; without any, it raises.  A get_pipes request that raises ends
\* verify before load_test_specs is called.
Verify_Load ==
    /\ vpc = "idle"
    /\ ncmds < MaxCommands
    /\ \/ \E files \in GlobOrders(DOMAIN specFiles) :
             LET loaded == LoadTestSpecs(files, specFiles, dataFiles, FALSE)
             IN /\ test_specs' = loaded.test_specs
                /\ specFiles' = loaded.spec_files
                /\ dataFiles' = loaded.data
                /\ IF loaded.raised \/ DOMAIN loaded.test_specs = {}
                   THEN /\ vpc' = "idle"
                        /\ voutcome' = "raised"
                        /\ todo' = <<>>
                   ELSE /\ vpc' = "verify"
                        /\ voutcome' = "none"
                        /\ todo' = WorkList(OutputPipes, loaded.test_specs)
       \/ /\ test_specs' = NoSpecs
          /\ vpc' = "idle"
          /\ voutcome' = "raised"
          /\ todo' = <<>>
          /\ UNCHANGED <<specFiles, dataFiles>>
    /\ vcmd' = "verify"
    /\ ncmds' = ncmds + 1
    /\ failed_tests' = <<>>
    /\ results' = <<>>
    /\ fetchFailed' = FALSE
    /\ UNCHANGED <<nodeOut, fresh, updated>>
    /\ UNCHANGED <<runVars, fnVars>>

\* One iteration of verify's loop over the specs of a pipe: an ignored spec
\* is skipped; reading the expected file or fetching the current output may
\* raise, and nothing in verify catches that; else the spec is compared,
\* and the raw comparison may raise after it has recorded the failure.
Verify_Spec ==
    /\ vpc = "verify"
    /\ todo # <<>>
    /\ LET pipe == Head(todo).pipe
           test_spec == Head(todo).test_spec
       IN \/ /\ Ignore(test_spec)
             /\ todo' = Tail(todo)
             /\ UNCHANGED <<vpc, failed_tests, results, voutcome, fetchFailed>>
          \/ /\ ~Ignore(test_spec)
             /\ ~ReadsExpected(test_spec, dataFiles)
             /\ results' = Append(results, [pipe |-> pipe,
                                            spec_file |-> test_spec.spec_file,
                                            verdict |-> "raised"])
             /\ vpc' = "idle"
             /\ voutcome' = "raised"
             /\ todo' = <<>>
             /\ UNCHANGED <<failed_tests, fetchFailed>>
          \/ /\ ~Ignore(test_spec)
             /\ ReadsExpected(test_spec, dataFiles)
             /\ fetchFailed' = TRUE
             /\ results' = Append(results, [pipe |-> pipe,
                                            spec_file |-> test_spec.spec_file,
                                            verdict |-> "raised"])
             /\ vpc' = "idle"
             /\ voutcome' = "raised"
             /\ todo' = <<>>
             /\ UNCHANGED failed_tests
          \/ /\ ~Ignore(test_spec)
             /\ ReadsExpected(test_spec, dataFiles)
             /\ LET verdict == SpecVerdict(test_spec, dataFiles, nodeOut[pipe])
                IN /\ results' = Append(results, [pipe |-> pipe,
                                                  spec_file |-> test_spec.spec_file,
                                                  verdict |-> verdict])
                   /\ failed_tests' = IF verdict = "equal" THEN failed_tests
                                      ELSE Append(failed_tests, test_spec)
                   /\ IF verdict = "content_raised"
                      THEN /\ vpc' = "idle"
                           /\ voutcome' = "raised"
                           /\ todo' = <<>>
                      ELSE /\ todo' = Tail(todo)
                           /\ UNCHANGED <<vpc, voutcome>>
             /\ UNCHANGED fetchFailed
    /\ UNCHANGED <<specFiles, dataFiles, nodeOut, vcmd, ncmds, test_specs, fresh,
                   updated>>
    /\ UNCHANGED <<runVars, fnVars>>

\* After the loop: raise RuntimeError("Verify failed") if a spec failed.
Verify_Report ==
    /\ vpc = "verify"
    /\ todo = <<>>
    /\ voutcome' = IF Len(failed_tests) > 0 THEN "failed" ELSE "ok"
    /\ vpc' = "idle"
    /\ UNCHANGED <<specFiles, dataFiles, nodeOut, vcmd, ncmds, test_specs, todo,
                   failed_tests, results, fetchFailed, fresh, updated>>
    /\ UNCHANGED <<runVars, fnVars>>

\* update(), up to its loop: the pipes are listed and the specs are loaded
\* in update mode.  A get_pipes request that raises ends update before
\* load_test_specs is called: no file is written or removed.
Update_Load ==
    /\ vpc = "idle"
    /\ ncmds < MaxCommands
    /\ \/ \E files \in GlobOrders(DOMAIN specFiles) :
             LET loaded == LoadTestSpecs(files, specFiles, dataFiles, TRUE)
             IN /\ test_specs' = loaded.test_specs
                /\ specFiles' = loaded.spec_files
                /\ dataFiles' = loaded.data
                /\ IF loaded.raised \/ DOMAIN loaded.test_specs = {}
                   THEN /\ vpc' = "idle"
                        /\ voutcome' = "raised"
                        /\ todo' = <<>>
                   ELSE /\ vpc' = "update"
                        /\ voutcome' = "none"
                        /\ todo' = WorkList(OutputPipes, loaded.test_specs)
       \/ /\ test_specs' = NoSpecs
          /\ vpc' = "idle"
          /\ voutcome' = "raised"
          /\ todo' = <<>>
          /\ UNCHANGED <<specFiles, dataFiles>>
    /\ vcmd' = "update"
    /\ ncmds' = ncmds + 1
    /\ failed_tests' = <<>>
    /\ results' = <<>>
    /\ fetchFailed' = FALSE
    /\ fresh' = FALSE
    /\ updated' = <<>>
    /\ UNCHANGED nodeOut
    /\ UNCHANGED <<runVars, fnVars>>

\* One iteration of update's loop over the specs of a pipe: the current
\* output is fetched and written to the spec's expected file.
Update_Spec ==
    /\ vpc = "update"
    /\ todo # <<>>
    /\ LET pipe == Head(todo).pipe
           test_spec == Head(todo).test_spec
       IN \/ /\ Ignore(test_spec)
             /\ todo' = Tail(todo)
             /\ UNCHANGED <<vpc, dataFiles, voutcome, fetchFailed>>
          \/ /\ ~Ignore(test_spec)
             /\ fetchFailed' = TRUE
             /\ vpc' = "idle"
             /\ voutcome' = "raised"
             /\ todo' = <<>>
             /\ UNCHANGED dataFiles
          \/ /\ ~Ignore(test_spec)
             /\ UpdateRaises(test_spec, nodeOut[pipe])
             /\ vpc' = "idle"
             /\ voutcome' = "raised"
             /\ todo' = <<>>
             /\ UNCHANGED <<dataFiles, fetchFailed>>
          \/ /\ ~Ignore(test_spec)
             /\ ~UpdateRaises(test_spec, nodeOut[pipe])
             /\ dataFiles' = WriteFile(dataFiles, ExpectedPath(test_spec),
                                       UpdateOutput(test_spec, nodeOut[pipe]))
             /\ todo' = Tail(todo)
             /\ UNCHANGED <<vpc, voutcome, fetchFailed>>
    /\ UNCHANGED <<specFiles, nodeOut, vcmd, ncmds, test_specs, failed_tests, results,
                   fresh, updated>>
    /\ UNCHANGED <<runVars, fnVars>>

\* After the loop update returns.
Update_Done ==
    /\ vpc = "update"
    /\ todo = <<>>
    /\ voutcome' = "ok"
    /\ vpc' = "idle"
    /\ fresh' = TRUE
    /\ updated' = SelectSeq(WorkList(OutputPipes, test_specs), NotIgnored)
    /\ UNCHANGED <<specFiles, dataFiles, nodeOut, vcmd, ncmds, test_specs, todo,
                   failed_tests, results, fetchFailed>>
    /\ UNCHANGED <<runVars, fnVars>>

\* Between two commands, after the expected files were recorded, a pipe of
\* the node comes to hold another output.
NodeChanges ==
    /\ vpc = "idle"
    /\ fresh
    /\ \E pipe \in PipeIds, out \in NodeOutputs :
          /\ out # nodeOut[pipe]
          /\ nodeOut' = [nodeOut EXCEPT ![pipe] = out]
    /\ fresh' = FALSE
    /\ UNCHANGED <<specFiles, dataFiles, vpc, vcmd, ncmds, test_specs, todo,
                   failed_tests, results, voutcome, fetchFailed, updated>>
    /\ UNCHANGED <<runVars, fnVars>>

(* ---------------------------------------------------------------------- *)
(* filter_entity applied to one record                                     *)
(* ---------------------------------------------------------------------- *)

K_a == <<"a">>

K_b == <<"b">>

K_h == <<"_", "h">>

K_meta == <<"m", "e", "t", "a">>

K_ts == <<"t", "s">>

\* The maps nested in the records: every map from some of the keys b, _h
\* and _deleted to 1 or true.
InnerDicts ==
    {JDict(f) : f \in UNION {[ks -> {JInt(<<"1">>), JBool(TRUE)}] :
                                ks \in SUBSET {K_b, K_h, K_deleted}}}

\* What the key a of a record holds: a map, a sequence of a map and a
\* scalar, a map of a map, or a scalar.
NestedValues ==
    InnerDicts
    \cup {JList(<<d, JInt(<<"5">>)>>) : d \in {JDict((K_b :> JInt(<<"1">>)) @@ (K_h :> JInt(<<"1">>))),
                                              JDict(K_a :> JInt(<<"1">>))}}
    \cup {JDict(K_a :> JDict((K_b :> JInt(<<"3">>)) @@ (K_deleted :> JInt(<<"1">>)))),
          JInt(<<"2">>)}

\* The records filter_entity is applied to.
FilterRecords ==
    {JDict((K_id :> JStr(<<"x">>)) @@ (K_meta :> JDict(K_ts :> JInt(<<"1", "2", "3">>)))
           @@ (K_val :> JInt(<<"1">>))),
     JDict((K_id :> JStr(<<"x">>)) @@ (<<"a", "\\", ".", "b">> :> JInt(<<"1">>)))}
    \cup {JDict((K_id :> JStr(<<"a">>)) @@ (K_a :> v) @@ top) :
             v \in NestedValues,
             top \in {NoDict,
                      (K_b :> JInt(<<"2">>)) @@ (K_deleted :> JBool(TRUE)),
                      (K_b :> JInt(<<"2">>)) @@ (K_deleted :> JBool(FALSE))
                          @@ (<<"_", "t", "s">> :> JInt(<<"1">>)),
                      K_deleted :> JInt(<<"1">>)}}

\* The blacklists of the spec: none, or a list of patterns.
NoBlacklist == <<>>

Blacklists ==
    {NoBlacklist,
     <<<<"m", "e", "t", "a", ".", "*">>>>,
     <<<<"a", ".", "b">>>>,
     <<<<"a", "\\", ".", "b">>>>,
     <<K_b>>,
     <<K_a>>,
     <<K_val, <<"?">>>>}

\* The spec with the blacklist bl (no "blacklist" key when bl is empty).
SpecWithBlacklist(bl) ==
    TestSpec(SpecFileName("p1"),
             IF bl = NoBlacklist THEN NoOptions ELSE [blacklist |-> bl])

InitFilter ==
    /\ op = "none"
    /\ input \in [entity : FilterRecords, blacklist : Blacklists]
    /\ output = <<>>
    /\ RunIdle
    /\ specFiles = NoFiles
    /\ dataFiles = NoFiles
    /\ nodeOut = [p \in PipeIds |-> CHOOSE o \in NodeOutputs : o.published = CsvOne]
    /\ VerifyIdle

\* filter_entity(entity, test_spec)
Filter_Entity ==
    /\ op = "none"
    /\ op' = "filter"
    /\ output' = [once |-> FilterEntity(input.entity, SpecWithBlacklist(input.blacklist))]
    /\ UNCHANGED input
    /\ UNCHANGED <<runVars, verVars>>

\* filter_entity applied to what filter_entity returned
Filter_Again ==
    /\ op = "filter"
    /\ op' = "filter_again"
    /\ output' = [once |-> output.once,
                  twice |-> FilterEntity(output.once, SpecWithBlacklist(input.blacklist))]
    /\ UNCHANGED input
    /\ UNCHANGED <<runVars, verVars>>

(* ---------------------------------------------------------------------- *)
(* The structured comparison applied to one spec                           *)
(* ---------------------------------------------------------------------- *)

\* Entities as the node sends them; EntityA holds val 3.0 and EntityA3
\* val 3, EntityM and EntityM3 hold 3.0 and 3 two levels down.
EntityA3 == JDict((K_id :> JStr(<<"a">>)) @@ (K_val :> JInt(<<"3">>))
                  @@ (<<"_", "t", "s">> :> JInt(<<"1">>)))

EntityM == JDict((K_id :> JStr(<<"b">>))
                 @@ (<<"m">> :> JDict(K_ts :> JList(<<JFloat(<<"3", ".", "0">>)>>))))

EntityM3 == JDict((K_id :> JStr(<<"b">>))
                  @@ (<<"m">> :> JDict(K_ts :> JList(<<JInt(<<"3">>)>>))))

EntityC == JDict(K_id :> JStr(<<"c">>))

\* An entity whose val is 3.5
EntityA35 == JDict((K_id :> JStr(<<"a">>)) @@ (K_val :> JFloat(<<"3", ".", "5">>))
                   @@ (<<"_", "t", "s">> :> JInt(<<"1">>)))

CompareEntities == {EntityA, EntityA3, EntityA2, EntityA35, EntityM, EntityM3, EntityC}

\* The sequences of at most two of the entities.
EntityLists ==
    {<<>>} \cup {<<e>> : e \in CompareEntities}
    \cup {<<e, f>> : e \in CompareEntities, f \in CompareEntities}

\* The orders a list can come in.
Permutations2(l) == IF Len(l) = 2 THEN {l, <<l[2], l[1]>>} ELSE {l}

\* Expected files a person wrote: one record a whose val is a number in a
\* form json.dumps does not write.
HandWrittenFiles ==
    {[k |-> "json",
      text |-> <<<<"[">>, <<"{">>, Quote \o K_id \o Quote, <<":">>, Quote \o <<"a">> \o Quote,
                 <<",">>, Quote \o K_val \o Quote, <<":">>, n, <<"}">>, <<"]">>>>] :
        n \in {<<"3", ".", "5", "0">>, <<"3", "5", "e", "-", "1">>, <<"3", "e", "0">>,
               <<"-", "0">>}}

\* An expected file as a person or an earlier update may have left it: the
\* JSON text of a list of records without the keys the filter drops.
ExpectedFiles ==
    {[k |-> "json",
      text |-> Dumps(JList([i \in 1..Len(l) |-> FilterEntity(l[i], SpecWithBlacklist(NoBlacklist))]))] :
        l \in EntityLists}
    \cup HandWrittenFiles

\* The project directory with the expected file of the spec only.
OnlyExpected(test_spec, content) == WriteFile(NoFiles, ExpectedPath(test_spec), content)

\* A pipe that holds these entities.
PipeWith(entities) == [entities |-> entities, published |-> CsvOne]

InitCompare ==
    /\ op = "none"
    /\ \E fetched \in EntityLists :
          input \in [fetched : {fetched},
                     permuted : Permutations2(fetched),
                     expected : ExpectedFiles,
                     blacklist : {NoBlacklist, <<K_val>>}]
    /\ output = <<>>
    /\ RunIdle
    /\ specFiles = NoFiles
    /\ dataFiles = NoFiles
    /\ nodeOut = [p \in PipeIds |-> CHOOSE o \in NodeOutputs : o.published = CsvOne]
    /\ VerifyIdle

\* verify's comparison of a json spec, for the fetched list and for the
\* same entities in another order
Compare_Verify ==
    /\ op = "none"
    /\ op' = "verify"
    /\ LET test_spec == SpecWithBlacklist(input.blacklist)
           df == OnlyExpected(test_spec, input.expected)
       IN output' = [verdict |-> SpecVerdict(test_spec, df, PipeWith(input.fetched)),
                     permuted |-> SpecVerdict(test_spec, df, PipeWith(input.permuted))]
    /\ UNCHANGED input
    /\ UNCHANGED <<runVars, verVars>>

\* The expected file with its records in the opposite order.
ReorderedFile(content) ==
    LET records == Loads(content.text).l
    IN [k |-> "json",
        text |-> Dumps(JList([i \in 1..Len(records) |-> records[Len(records) + 1 - i]]))]

\* verify's comparison of a json spec, for the expected file and for the
\* file that holds the same records in the opposite order
Compare_Baseline ==
    /\ op = "none"
    /\ op' = "baseline"
    /\ LET test_spec == SpecWithBlacklist(input.blacklist)
       IN output' = [verdict |-> SpecVerdict(test_spec, OnlyExpected(test_spec, input.expected),
                                            PipeWith(input.fetched)),
                     reordered |-> SpecVerdict(test_spec,
                                              OnlyExpected(test_spec, ReorderedFile(input.expected)),
                                              PipeWith(input.fetched))]
    /\ UNCHANGED input
    /\ UNCHANGED <<runVars, verVars>>

\* update's record of a json spec, for the fetched list and for the same
\* entities in another order
Compare_Update ==
    /\ op = "none"
    /\ op' = "update"
    /\ LET test_spec == SpecWithBlacklist(input.blacklist)
       IN output' = [content |-> UpdateOutput(test_spec, PipeWith(input.fetched)),
                     permuted |-> UpdateOutput(test_spec, PipeWith(input.permuted))]
    /\ UNCHANGED input
    /\ UNCHANGED <<runVars, verVars>>

(* ---------------------------------------------------------------------- *)
(* status                                                                  *)
(* A config is the zip archive of the configuration files: a function from *)
(* file names to contents.  A content is UTF-8 text, [k |-> "text", s |->  *)
(* its text], or bytes that are no UTF-8 text, [k |-> "bin"].              *)
(* ---------------------------------------------------------------------- *)

K_c == <<"c">>

TextOne == [k |-> "text", s |-> "t1"]

TextTwo == [k |-> "text", s |-> "t2"]

NotText == [k |-> "bin"]

\* The configs: the files a and c hold one of two texts, the file b one of
\* two texts or bytes that are no text; each file may be missing.
Configs ==
    {a @@ b @@ c :
        a \in {NoFiles} \cup {K_a :> t : t \in {TextOne, TextTwo}},
        b \in {NoFiles} \cup {K_b :> t : t \in {TextOne, TextTwo, NotText}},
        c \in {NoFiles} \cup {K_c :> t : t \in {TextOne, TextTwo}}}

\* sorted(config.namelist())
SortedNames(config) == SortedKeys(DOMAIN config)

\* The first loop of status: the remote files that are not local files
MutRemoteOnly(remote_files, local) == <<>>
RECURSIVE RemoteOnly(_, _)
RemoteOnly(remote_files, local) ==
    IF remote_files = <<>> THEN <<>>
    ELSE (IF Head(remote_files) \notin DOMAIN local
          THEN <<[kind |-> "remote_only", file |-> Head(remote_files)]>> ELSE <<>>)
         \o RemoteOnly(Tail(remote_files), local)

\* The second loop of status: the local files that are not remote files,
\* and those whose text differs; str(.., encoding="utf-8") raises on bytes
\* that are no UTF-8 text, and the loop ends there.
RECURSIVE LocalLoop(_, _, _, _)
LocalLoop(local_files, local, remote, acc) ==
    IF local_files = <<>> THEN [raised |-> FALSE, report |-> acc]
    ELSE LET local_file == Head(local_files)
         IN IF local_file \notin DOMAIN remote
            THEN LocalLoop(Tail(local_files), local, remote,
                           Append(acc, [kind |-> "local_only", file |-> local_file]))
            ELSE IF local[local_file].k # "text" \/ remote[local_file].k # "text"
            THEN [raised |-> TRUE, report |-> acc]
            ELSE IF local[local_file].s # remote[local_file].s
            THEN LocalLoop(Tail(local_files), local, remote,
                           Append(acc, [kind |-> "differs", file |-> local_file]))
            ELSE LocalLoop(Tail(local_files), local, remote, acc)

\* The comparison of status: the lines it logs per file, and the verdict
\* it logs at the end (diff_found is true exactly when a line was logged).
CompareConfigs(local, remote) ==
    LET loop == LocalLoop(SortedNames(local), local, remote,
                          RemoteOnly(SortedNames(remote), local))
    IN [raised |-> loop.raised,
        report |-> loop.report,
        in_sync |-> ~loop.raised /\ loop.report = <<>>]

\* What status leaves when a call to the node raised before the comparison.
StatusRaised == [raised |-> TRUE, report |-> <<>>, in_sync |-> FALSE]

InitStatus ==
    /\ op = "none"
    /\ input \in [local : Configs, remote : Configs]
    /\ output = <<>>
    /\ command = "status"
    /\ custom_scheduler \in BOOLEAN
    /\ dont_remove_scheduler \in BOOLEAN
    /\ systemExists \in BOOLEAN
    /\ pc = "exit"
    /\ vtimeout = AddSystemTimeout
    /\ wtimeout = Timeout
    /\ timeout = Timeout
    /\ status = "none"
    /\ polls = <<>>
    /\ runPolls = 0
    /\ events = <<>>
    /\ faults = FALSE
    /\ ssFailed = "none"
    /\ runState = "absent"
    /\ exitKind = "none"
    /\ cleanupRemove = "none"
    /\ finallyRemove = "none"
    /\ callerSees = "pending"
    /\ verifyEntered = FALSE
    /\ exitCode = -1
    /\ specFiles = NoFiles
    /\ dataFiles = NoFiles
    /\ nodeOut = [p \in PipeIds |-> CHOOSE o \in NodeOutputs : o.published = CsvOne]
    /\ VerifyIdle

\* What status leaves unchanged in every one of its steps
StatusFrame ==
    /\ UNCHANGED input
    /\ UNCHANGED <<command, custom_scheduler, dont_remove_scheduler, pc, vtimeout,
                   wtimeout, timeout, status, polls, runPolls, ssFailed, runState,
                   exitKind, cleanupRemove, finallyRemove, callerSees, verifyEntered,
                   exitCode>>
    /\ UNCHANGED verVars

\* status(), its first request: unless the scheduler is a custom one or is
\* to be kept, get_system looks the scheduler up; the call may raise, which
\* ends status.
Status_GetSystem ==
    /\ op = "none"
    /\ \/ /\ custom_scheduler \/ dont_remove_scheduler
          /\ op' = "status_config"
          /\ UNCHANGED <<output, faults>>
       \/ /\ ~custom_scheduler /\ ~dont_remove_scheduler
          /\ op' = IF systemExists THEN "status_remove" ELSE "status_config"
          /\ UNCHANGED <<output, faults>>
       \/ /\ ~custom_scheduler /\ ~dont_remove_scheduler
          /\ op' = "status"
          /\ faults' = TRUE
          /\ output' = StatusRaised
    /\ UNCHANGED <<systemExists, events>>
    /\ StatusFrame

\* status(), its second request: remove_system on the scheduler that was
\* found; an error is logged and raised again.
Status_Remove ==
    /\ op = "status_remove"
    /\ \/ /\ RemoveSystemReturns
          /\ op' = "status_config"
          /\ UNCHANGED <<output, faults>>
       \/ /\ RemoveSystemRaises
          /\ op' = "status"
          /\ faults' = TRUE
          /\ output' = StatusRaised
    /\ StatusFrame

\* status(), its last part: the local config is zipped, get_config fetches
\* the remote one, and the two are compared; get_config may raise.
Status ==
    /\ op = "status_config"
    /\ op' = "status"
    /\ \/ /\ output' = CompareConfigs(input.local, input.remote)
          /\ UNCHANGED faults
       \/ /\ faults' = TRUE
          /\ output' = StatusRaised
    /\ UNCHANGED <<systemExists, events>>
    /\ StatusFrame

(* ---------------------------------------------------------------------- *)
(* load_test_specs applied to one project directory                        *)
(* ---------------------------------------------------------------------- *)

\* The spec files of the directory: p1's spec is a plain one, one that names
\* a pipe the node does not have (ignored or not), or an ignored one, with the
\* default output
\* file or with the file option; p2's spec is a plain or an ignored one.
LoadSpecFileSets ==
    {a @@ b :
        a \in {NoFiles} \cup {SpecFileName("p1") :> d :
                 d \in {NoOptions,
                        [pipe |-> "gone"],
                        [pipe |-> "gone", ignore |-> TRUE],
                        [ignore |-> TRUE],
                        [ignore |-> TRUE, file |-> <<"p1", ".json">>],
                        [ignore |-> TRUE, file |-> <<"expected", "p1", ".json">>]}},
        b \in {NoFiles} \cup {SpecFileName("p2") :> d :
                 d \in {NoOptions, [ignore |-> TRUE]}}}

\* The places an output file of the directory may be at: in expected/, in
\* the working directory, and in expected/expected/.
LoadDataPaths ==
    {<<"expected", "p1", ".json">>, <<"p1", ".json">>,
     <<"expected", "expected", "p1", ".json">>, <<"expected", "p2", ".json">>}

LoadDataSets == {[f \in fs |-> CsvOne] : fs \in SUBSET LoadDataPaths}

InitLoad ==
    /\ op = "none"
    /\ input \in [spec_files : LoadSpecFileSets, data : LoadDataSets, update : BOOLEAN]
    /\ output = <<>>
    /\ specFiles = NoFiles
    /\ dataFiles = NoFiles
    /\ nodeOut = [p \in PipeIds |-> CHOOSE o \in NodeOutputs : o.published = CsvOne]
    /\ VerifyIdle
    /\ RunIdle

\* load_test_specs(existing_output_pipes, update) on the directory
Load_Test_Specs ==
    /\ op = "none"
    /\ op' = "load"
    /\ \E files \in GlobOrders(DOMAIN input.spec_files) :
          output' = LoadTestSpecs(files, input.spec_files, input.data, input.update)
    /\ UNCHANGED input
    /\ UNCHANGED <<runVars, verVars>>

(* ---------------------------------------------------------------------- *)
(* The raw comparison applied to one spec                                  *)
(* A byte string is a sequence of byte values, a str the sequence of its   *)
(* code points.                                                            *)
(* ---------------------------------------------------------------------- *)

\* What the else branch of verify's loop does with the two byte strings:
\* whether the spec is appended to failed_tests, whether the iteration
\* raises out of verify, and the two texts given to get_diff_string.  When
\* the first str(.., "utf-8") returned, expected_output is a str by the
\* time the second raises, and str(expected_output, encoding="latin-1")
\* raises TypeError, which nothing catches.
RawCompare(expected_output, current_output) ==
    IF expected_output = current_output
    THEN [failed |-> FALSE, raised |-> FALSE, diff |-> <<>>]
    ELSE IF DecodeUtf8(expected_output).ok
    THEN (IF DecodeUtf8(current_output).ok
          THEN [failed |-> TRUE, raised |-> FALSE,
                diff |-> <<DecodeUtf8(expected_output).text, DecodeUtf8(current_output).text>>]
          ELSE [failed |-> TRUE, raised |-> TRUE, diff |-> <<>>])
    ELSE [failed |-> TRUE, raised |-> FALSE,
          diff |-> <<DecodeLatin1(expected_output), DecodeLatin1(current_output)>>]

InitRaw ==
    /\ op = "none"
    /\ input \in [expected : ByteStrings, current : ByteStrings]
    /\ output = <<>>
    /\ specFiles = NoFiles
    /\ dataFiles = NoFiles
    /\ nodeOut = [p \in PipeIds |-> CHOOSE o \in NodeOutputs : o.published = CsvOne]
    /\ VerifyIdle
    /\ RunIdle

\* One iteration of verify's loop for a spec of another endpoint than json
\* and xml, with the expected file and the published data read.
Raw_Compare ==
    /\ op = "none"
    /\ op' = "raw"
    /\ output' = RawCompare(input.expected, input.current)
    /\ UNCHANGED input
    /\ UNCHANGED <<runVars, verVars>>

(* ---------------------------------------------------------------------- *)
(* find_xml_header_settings applied to the head of one document            *)
(* ---------------------------------------------------------------------- *)

\* The quotes an attribute value may be written in
Quotes == {"\"", "'"}

\* The values of the standalone attribute
StandaloneValues == {<<"y", "e", "s">>, <<"n", "o">>}

\* How the data starts: with the opening of a declaration or not
HeadOpenings == {<<"<?xml ">>, <<>>}

\* The attributes before standalone
HeadVersions ==
    {<<>>, <<"version=", "\"", "1", ".", "0", "\"", " ">>,
     <<"version=", "'", "1", ".", "0", "'", " ", "encoding=", "\"", "utf-8", "\"", " ">>}

\* The standalone attribute: absent, or a quoted value
HeadStandalones ==
    {[present |-> FALSE, value |-> <<>>, text |-> <<>>]}
    \cup {[present |-> TRUE, value |-> v, text |-> <<"standalone=", q>> \o v \o <<q>>] :
            q \in Quotes, v \in StandaloneValues}

\* The end of the declaration, if any, and what follows it
HeadEndings == {<<"?>">>, <<"?>", "<", "a", "/", ">">>, <<>>}

InitXmlHeader ==
    /\ op = "none"
    /\ \E opening \in HeadOpenings, version \in HeadVersions,
          standalone \in HeadStandalones, ending \in HeadEndings :
          input = [head |-> opening \o version \o standalone.text \o ending,
                   declared |-> opening # <<>>,
                   closed |-> ending # <<>>,
                   standalone |-> [present |-> standalone.present,
                                   value |-> standalone.value]]
    /\ output = <<>>
    /\ specFiles = NoFiles
    /\ dataFiles = NoFiles
    /\ nodeOut = [p \in PipeIds |-> CHOOSE o \in NodeOutputs : o.published = CsvOne]
    /\ VerifyIdle
    /\ RunIdle

\* find_xml_header_settings(xml_data)
Find_Xml_Header_Settings ==
    /\ op = "none"
    /\ op' = "xml_header"
    /\ output' = FindXmlHeaderSettings(input.head)
    /\ UNCHANGED input
    /\ UNCHANGED <<runVars, verVars>>

(* ---------------------------------------------------------------------- *)
(* get_pipe_type applied to one pipe                                       *)
(* A config is a function from the keys it holds to JSON values.           *)
(* ---------------------------------------------------------------------- *)

NoConfig == [k \in {} |-> JNull]

\* dict.get(key, default)
Get(config, key, default) == IF key \in DOMAIN config THEN config[key] ELSE default

\* The truth value Python gives a value; a number is false when it is zero
\* (0, 0.0 and -0.0).
Truthy(v) ==
    IF v.t = "null" THEN FALSE
    ELSE IF v.t = "bool" THEN v.b
    ELSE IF v.t = "str" THEN v.s # <<>>
    ELSE IF v.t = "list" THEN v.l # <<>>
    ELSE IF v.t = "dict" THEN DOMAIN v.d # {}
    ELSE LET p == NumberParts(v.s)
         IN StripLeadingZeros(p.int \o p.frac) # <<>>

TypeEmbedded == JStr(<<"e", "m", "b", "e", "d", "d", "e", "d">>)

TypeDataset == JStr(<<"d", "a", "t", "a", "s", "e", "t">>)

TypeSql == JStr(<<"s", "q", "l">>)

TypeJsonEndpoint == JStr(<<"j", "s", "o", "n", "_", "e", "n", "d", "p", "o", "i", "n", "t">>)

\* The source configs: the type, the dataset and the datasets keys may each
\* be missing; a dataset may be the empty string, datasets the empty list.
SourceConfigs ==
    {a @@ b @@ c :
        a \in {NoConfig} \cup {"type" :> t : t \in {TypeEmbedded, TypeDataset, TypeSql}},
        b \in {NoConfig} \cup {"dataset" :> d : d \in {JStr(<<>>), JStr(<<"d", "1">>)}},
        c \in {NoConfig} \cup {"datasets" :> d : d \in {JList(<<>>), JList(<<JStr(<<"d", "1">>)>>)}}}

\* The sink configs; a type may be a value that is no string, a dataset a
\* number.
SinkConfigs ==
    {a @@ b :
        a \in {NoConfig} \cup {"type" :> t : t \in {TypeDataset, TypeJsonEndpoint, JNull}},
        b \in {NoConfig} \cup {"dataset" :> d :
                 d \in {JStr(<<>>), JStr(<<"d", "2">>), JFloat(<<"0", ".", "0">>), JInt(<<"1">>)}}}

\* pipe.config["effective"]: the source and the sink may each be missing.
EffectiveConfigs ==
    {a @@ b :
        a \in {NoConfig} \cup {"source" :> c : c \in SourceConfigs},
        b \in {NoConfig} \cup {"sink" :> c : c \in SinkConfigs}}

\* SesamNode.get_pipe_type
GetPipeType(effective) ==
    LET source_config == Get(effective, "source", NoConfig)
        sink_config == Get(effective, "sink", NoConfig)
        source_type == Get(source_config, "type", JStr(<<>>))
        sink_type == Get(sink_config, "type", JStr(<<>>))
    IN IF source_type = TypeEmbedded THEN "input"
       ELSE IF sink_type.t = "str" /\ EndsWith(sink_type.s, <<"_", "e", "n", "d", "p", "o", "i", "n", "t">>)
       THEN "endpoint"
       ELSE IF /\ \/ Truthy(Get(source_config, "dataset", JNull))
                  \/ Truthy(Get(source_config, "datasets", JNull))
               /\ Truthy(Get(sink_config, "dataset", JNull))
       THEN "internal"
       ELSE IF ~Truthy(Get(sink_config, "dataset", JNull)) THEN "output"
       ELSE "internal"

InitPipeType ==
    /\ op = "none"
    /\ input \in EffectiveConfigs
    /\ output = <<>>
    /\ specFiles = NoFiles
    /\ dataFiles = NoFiles
    /\ nodeOut = [p \in PipeIds |-> CHOOSE o \in NodeOutputs : o.published = CsvOne]
    /\ VerifyIdle
    /\ RunIdle

\* get_pipe_type(pipe)
Get_Pipe_Type ==
    /\ op = "none"
    /\ op' = "pipe_type"
    /\ output' = GetPipeType(input)
    /\ UNCHANGED input
    /\ UNCHANGED <<runVars, verVars>>

(* ---------------------------------------------------------------------- *)
(* run's loop with -print-scheduler-log                                    *)
(* The scheduler's log is a growing list of lines; line i starts with the  *)
(* timestamp i.  input.written counts the lines written so far; output     *)
(* holds run's since, the timestamps of the lines printed, in order, and   *)
(* the number of calls of print_scheduler_log.                             *)
(* ---------------------------------------------------------------------- *)

MaxLines == 3

MaxFetches == 4

\* since = None
NoSince == [set |-> FALSE, ts |-> 0]

Since(ts) == [set |-> TRUE, ts |-> ts]

\* GET systems/<id>/logs with params since: the lines written after since;
\* without params: every line.
GetSystemLog(written, since) ==
    LET first == IF since.set THEN since.ts + 1 ELSE 1
    IN [i \in 1..(IF written >= first THEN written - first + 1 ELSE 0) |-> first + i - 1]

\* print_scheduler_log when get_system_log returned log_output: last_since
\* starts as None and is the timestamp of the last line, if there is one.
LastSince(log_output) ==
    IF log_output = <<>> THEN NoSince ELSE Since(log_output[Len(log_output)])

InitLog ==
    /\ op = "none"
    /\ input = [written |-> 0]
    /\ output = <<>>
    /\ specFiles = NoFiles
    /\ dataFiles = NoFiles
    /\ nodeOut = [p \in PipeIds |-> CHOOSE o \in NodeOutputs : o.published = CsvOne]
    /\ VerifyIdle
    /\ RunIdle

\* run(): start_time and since = None, before the loop
Log_Start ==
    /\ op = "none"
    /\ op' = "log_loop"
    /\ output' = [since |-> NoSince, printed |-> <<>>, fetches |-> 0]
    /\ UNCHANGED input
    /\ UNCHANGED <<runVars, verVars>>

\* The scheduler writes a line to its log.
Log_Write ==
    /\ op \in {"none", "log_loop"}
    /\ input.written < MaxLines
    /\ input' = [written |-> input.written + 1]
    /\ UNCHANGED <<op, output>>
    /\ UNCHANGED <<runVars, verVars>>

\* since = self.print_scheduler_log(since=since), the fetch returning
Log_Print ==
    /\ op = "log_loop"
    /\ output.fetches < MaxFetches
    /\ LET log_output == GetSystemLog(input.written, output.since)
       IN output' = [since |-> LastSince(log_output),
                     printed |-> output.printed \o log_output,
                     fetches |-> output.fetches + 1]
    /\ UNCHANGED <<op, input>>
    /\ UNCHANGED <<runVars, verVars>>

\* since = self.print_scheduler_log(since=since), the fetch raising: the
\* except clause returns the since it was given.
Log_Fail ==
    /\ op = "log_loop"
    /\ output.fetches < MaxFetches
    /\ output' = [output EXCEPT !.fetches = output.fetches + 1]
    /\ UNCHANGED <<op, input>>
    /\ UNCHANGED <<runVars, verVars>>

\* The loop is left: the status poll returned success or failed, or raised.
Log_End ==
    /\ op = "log_loop"
    /\ op' = "log_done"
    /\ UNCHANGED <<input, output>>
    /\ UNCHANGED <<runVars, verVars>>

(* ---------------------------------------------------------------------- *)
(* The specifications                                                      *)
(* ---------------------------------------------------------------------- *)

\* The run-loop: sesam run / sesam test
Next ==
    \/ Main
    \/ Upload
    \/ Wipe
    \/ Download_GetSystem
    \/ Download_Remove
    \/ Download_Config
    \/ SS_GetSystem
    \/ SS_RemoveOld
    \/ SS_AddSystem
    \/ SS_Verify
    \/ SS_Wait
    \/ SS_WaitLoop
    \/ SS_InitLoop
    \/ SS_Post
    \/ SS_Except
    \/ SS_Cleanup
    \/ Run_Poll
    \/ Run_Interrupt
    \/ Run_Finally
    \/ AfterRun

Init ==
    /\ InitRun
    /\ specFiles = NoFiles
    /\ dataFiles = NoFiles
    /\ nodeOut = [p \in PipeIds |-> CHOOSE o \in NodeOutputs : o.published = CsvOne]
    /\ VerifyIdle
    /\ FnIdle

Spec == Init /\ [][Next]_vars

\* The verification engine: sesam update / sesam verify, one after another
NextVerify ==
    \/ Verify_Load
    \/ Verify_Spec
    \/ Verify_Report
    \/ Update_Load
    \/ Update_Spec
    \/ Update_Done
    \/ NodeChanges

SpecVerify == InitVerify /\ [][NextVerify]_vars

\* filter_entity on one record, once and once more
NextFilter ==
    \/ Filter_Entity
    \/ Filter_Again

SpecFilter == InitFilter /\ [][NextFilter]_vars

\* The structured comparison and record of one spec
NextCompare ==
    \/ Compare_Verify
    \/ Compare_Update
    \/ Compare_Baseline

SpecCompare == InitCompare /\ [][NextCompare]_vars

\* sesam status
NextStatus ==
    \/ Status_GetSystem
    \/ Status_Remove
    \/ Status

SpecStatus == InitStatus /\ [][NextStatus]_vars

\* load_test_specs on one project directory
NextLoad ==
    \/ Load_Test_Specs

SpecLoad == InitLoad /\ [][NextLoad]_vars

\* The raw comparison of one spec
NextRaw ==
    \/ Raw_Compare

SpecRaw == InitRaw /\ [][NextRaw]_vars

\* find_xml_header_settings on the head of one document
NextXmlHeader ==
    \/ Find_Xml_Header_Settings

SpecXmlHeader == InitXmlHeader /\ [][NextXmlHeader]_vars

\* get_pipe_type on one pipe
NextPipeType ==
    \/ Get_Pipe_Type

SpecPipeType == InitPipeType /\ [][NextPipeType]_vars

\* run's loop with the scheduler's log printed
NextLog ==
    \/ Log_Start
    \/ Log_Write
    \/ Log_Print
    \/ Log_Fail
    \/ Log_End

SpecLog == InitLog /\ [][NextLog]_vars

(* ---------------------------------------------------------------------- *)
(* Properties of the scheduler run-loop                                    *)
(* ---------------------------------------------------------------------- *)

RemoveEvents == {"remove", "remove_absent", "remove_raised"}

\* The scheduler was registered by this run.
Added == \E i \in 1..Len(events) : events[i] = "add"

\* The calls of remove_system made after the registration.
RemovalsAfterAdd ==
    Cardinality({i \in 1..Len(events) :
                    /\ events[i] \in RemoveEvents
                    /\ \E j \in 1..(i - 1) : events[j] = "add"})

\* run() is over.
RunOver == pc \in {"run_returned", "exit"}

\* No custom scheduler, no retention.
DefaultSettings == ~custom_scheduler /\ ~dont_remove_scheduler

ScenarioSuccess == <<"init", "running", "running", "success">>

ScenarioFailed == <<"init", "running", "failed">>

\* C1: with default settings and no other call failing, the status sequence
\* init, running, running, success ends the polling in state succeeded, and
\* init, running, failed ends it in state failed; in both the scheduler has
\* been registered and is then removed by exactly one remove_system call.
C1_ScenarioOutcome ==
    (DefaultSettings /\ ~faults /\ polls \in {ScenarioSuccess, ScenarioFailed}) =>
        /\ pc \in {"run_finally", "run_returned", "exit"}
        /\ runState = (IF polls = ScenarioSuccess THEN "succeeded" ELSE "failed")
        /\ Added
        /\ RunOver => /\ RemovalsAfterAdd = 1
                      /\ events[Len(events)] = "remove"
                      /\ ~systemExists

C1_Witness ==
    /\ RunOver
    /\ DefaultSettings
    /\ ~faults
    /\ polls = ScenarioSuccess
    /\ runState = "succeeded"
    /\ RemovalsAfterAdd = 1

\* C2: once run's try block has been left (by the success marker, the failure
\* marker, a poll that raised or an interruption) and run is over, the finally
\* clause has called remove_system exactly when dont_remove_scheduler is not
\* set; and with dont_remove_scheduler set, remove_system is never called
\* after the scheduler has been registered.
C2_TeardownUnlessRetained ==
    /\ (RunOver /\ exitKind # "none") =>
           /\ finallyRemove \in {"returned", "raised", "skipped"}
           /\ (finallyRemove \in {"returned", "raised"}) <=> ~dont_remove_scheduler
    /\ dont_remove_scheduler => RemovalsAfterAdd = 0

C2_Witness ==
    /\ RunOver
    /\ exitKind = "interrupt"
    /\ ssFailed = "none"
    /\ ~dont_remove_scheduler
    /\ Added
    /\ finallyRemove = "returned"

\* C3 (as claimed): after a poll returned the failure marker (start_scheduler
\* having succeeded and no call having raised), run's caller
\* observes a failure: run does not return normally, test() does not enter
\* verify(), and the command does not exit with 0.
C3_FailedMarkerPropagates ==
    (RunOver /\ exitKind = "return" /\ ssFailed = "none" /\ ~faults) =>
        /\ callerSees = "raised"
        /\ ~verifyEntered
        /\ exitCode # 0

\* C4 (as claimed): when start_scheduler failed after it registered the
\* scheduler and retention was not requested, remove_system has been called
\* after the failure by the time run is over.
C4_FailedStartIsCleanedUp ==
    (RunOver /\ ssFailed # "none" /\ Added /\ ~dont_remove_scheduler) =>
        \/ cleanupRemove \in {"returned", "raised"}
        \/ finallyRemove \in {"returned", "raised"}

\* C5 (as claimed): the loop that waits for "init" is left once the timeout
\* budget is spent.
C5_InitLoopEndsOnTimeout ==
    pc = "ss_init_loop" => timeout > 0

\* C6 (as claimed): run's polling loop makes no more polls than the timeout
\* budget pays for at the poll interval.
C6_RunLoopBounded ==
    (pc = "run_loop" /\ ssFailed = "none" /\ ~faults) =>
        runPolls * sleep_interval < Timeout

\* C7 (as claimed): with custom_scheduler set, start_scheduler neither
\* removes nor registers a system before it waits for the scheduler.
C7_CustomSchedulerUntouched ==
    (custom_scheduler /\ ssFailed = "none" /\ pc \in {"ss_wait", "ss_wait_loop", "ss_init_loop"}) =>
        events = <<>>

\* C19 (as claimed): after start_scheduler failed, run makes no status poll,
\* does not end in state succeeded, and its caller observes the failure.
C19_FailedStartStopsRun ==
    ssFailed # "none" =>
        /\ runPolls = 0
        /\ runState # "succeeded"
        /\ RunOver => callerSees = "raised"

(* ---------------------------------------------------------------------- *)
(* Properties of the verification engine                                   *)
(* ---------------------------------------------------------------------- *)

\* The (pipe, spec) iterations of the loaded specs that are not ignored
ToCompare == SelectSeq(WorkList(OutputPipes, test_specs), NotIgnored)

ToComparePairs ==
    [i \in 1..Len(ToCompare) |-> <<ToCompare[i].pipe, ToCompare[i].test_spec.spec_file>>]

\* The (pipe, spec file) pairs verify attempted, in order
AttemptedPairs == [i \in 1..Len(results) |-> <<results[i].pipe, results[i].spec_file>>]

IsMismatch(r) == r.verdict \in {"length", "content", "content_raised"}

\* The (pipe, spec file) pairs whose comparison found a difference
MismatchedPairs ==
    LET mismatches == SelectSeq(results, IsMismatch)
    IN [i \in 1..Len(mismatches) |-> <<mismatches[i].pipe, mismatches[i].spec_file>>]

\* The (pipe, spec file) pairs verify lists as failed
FailedPairs ==
    [i \in 1..Len(failed_tests) |-> <<failed_tests[i].spec.pipe, failed_tests[i].spec_file>>]

\* verify loaded specs, ran its loop and is over
VerifyOver == vcmd = "verify" /\ vpc = "idle" /\ DOMAIN test_specs # {}

\* C8: when verify is over, it has attempted every loaded spec that is not
\* ignored, of every pipe; it ended in failure if and only if an attempt
\* did not pass; and its list of failures holds exactly the mismatching
\* (pipe, spec file) pairs, each once.
C8_VerifyAttemptsEverySpec ==
    VerifyOver =>
        /\ AttemptedPairs = ToComparePairs
        /\ (voutcome \in {"failed", "raised"})
              <=> (\E i \in 1..Len(results) : results[i].verdict # "equal")
        /\ FailedPairs = MismatchedPairs

\* C9: when a fetch of the current output raised during verify, the spec
\* it was fetched for is in verify's list of failures, verify ends through
\* its report of failed specs, and every loaded spec that is not ignored
\* was attempted.
C9_FetchErrorIsRecorded ==
    (VerifyOver /\ fetchFailed) =>
        /\ voutcome = "failed"
        /\ AttemptedPairs = ToComparePairs
        /\ \A i \in 1..Len(results) :
              results[i].verdict = "raised" =>
                  \E j \in 1..Len(FailedPairs) :
                      FailedPairs[j] = <<results[i].pipe, results[i].spec_file>>

\* update completed, the node's output was not touched since, and a verify
\* whose fetches all returned is over
RoundTripDone == VerifyOver /\ fresh /\ ~fetchFailed

\* C10 as stated: for any set of specs, after update and then verify on the
\* unchanged output, verify reports no failure.
C10_RoundTripAnySpecs ==
    RoundTripDone => (voutcome = "ok" /\ failed_tests = <<>>)

\* No two of the specs update wrote the output of have the same expected
\* file.
DistinctExpectedFiles ==
    \A i, j \in 1..Len(updated) :
        i # j => ExpectedPath(updated[i].test_spec) # ExpectedPath(updated[j].test_spec)

\* C10, amended: after an update that completed and then verify on the
\* unchanged output, verify compares every spec and reports no failure,
\* provided no two of the specs update processed share an expected file.
C10_RoundTrip ==
    (RoundTripDone /\ DistinctExpectedFiles) =>
        /\ voutcome = "ok"
        /\ failed_tests = <<>>
        /\ AttemptedPairs = ToComparePairs

\* A round trip over a structured spec with a blacklist, an xml spec and a
\* raw spec, on entities that update had to filter, convert and sort.
C10_Witness ==
    /\ RoundTripDone
    /\ DistinctExpectedFiles
    /\ voutcome = "ok"
    /\ Len(results) = 3
    /\ \E i, j, k \in 1..Len(ToCompare) :
          /\ ToCompare[i].test_spec.spec.endpoint = "json"
          /\ "blacklist" \in DOMAIN ToCompare[i].test_spec.spec
          /\ nodeOut[ToCompare[i].pipe].entities = <<EntityB, EntityA>>
          /\ ToCompare[j].test_spec.spec.endpoint = "xml"
          /\ nodeOut[ToCompare[j].pipe].published = XmlOne
          /\ ToCompare[k].test_spec.spec.endpoint = "csv"

(* ---------------------------------------------------------------------- *)
(* Properties of filter_entity                                             *)
(* ---------------------------------------------------------------------- *)

\* C11: filter_entity applied to what filter_entity returned, with the
\* same blacklist, returns it unchanged.
C11_FilterIdempotent ==
    op = "filter_again" => output.twice = output.once

\* A record whose nested map lost an underscore key and whose top level
\* lost a blacklisted key, filtered twice.
C11_Witness ==
    /\ op = "filter_again"
    /\ input.blacklist = <<K_b>>
    /\ K_b \in DOMAIN input.entity.d
    /\ input.entity.d[K_a].t = "dict"
    /\ K_h \in DOMAIN input.entity.d[K_a].d
    /\ K_h \notin DOMAIN output.once.d[K_a].d
    /\ K_b \notin DOMAIN output.once.d
    /\ output.twice = output.once

\* The record and the blacklist of the example, and what the filter is to
\* return for them.
MetaRecord ==
    JDict((K_id :> JStr(<<"x">>)) @@ (K_meta :> JDict(K_ts :> JInt(<<"1", "2", "3">>)))
          @@ (K_val :> JInt(<<"1">>)))

MetaFiltered == JDict((K_id :> JStr(<<"x">>)) @@ (K_val :> JInt(<<"1">>)))

\* C12: with the blacklist ["meta.*"], filtering
\* {"_id": "x", "meta": {"ts": 123}, "val": 1} gives {"_id": "x", "val": 1}.
C12_MetaBlacklistExample ==
    (op = "filter" /\ input.entity = MetaRecord
        /\ input.blacklist = <<<<"m", "e", "t", "a", ".", "*">>>>)
        => output.once = MetaFiltered

\* ".".join(path): the dotted path of a key from the root of the record
RECURSIVE DottedPath(_)
DottedPath(path) ==
    IF Len(path) <= 1 THEN JoinEmpty(path)
    ELSE Head(path) \o <<".">> \o DottedPath(Tail(path))

\* A pattern of the blacklist matches the dotted path.
DottedBlacklisted(blacklist, path) ==
    \E i \in 1..Len(blacklist) : FnMatch(DottedPath(path), blacklist[i])

\* What the filter is to keep of the key at path with this value.
ToKeep(blacklist, path, key, value) ==
    IF Head(key) = "_"
    THEN key = K_id \/ (key = K_deleted /\ value = JBool(TRUE))
    ELSE ~DottedBlacklisted(blacklist, Append(path, key))

\* out is item filtered as stated: at every level the keys to keep are
\* there, with their values filtered, and no other key; scalars are
\* unchanged.
RECURSIVE FilteredAsStated(_, _, _, _)
FilteredAsStated(blacklist, path, item, out) ==
    IF item.t = "dict"
    THEN /\ out.t = "dict"
         /\ DOMAIN out.d = {k \in DOMAIN item.d : ToKeep(blacklist, path, k, item.d[k])}
         /\ \A k \in DOMAIN out.d :
               FilteredAsStated(blacklist, Append(path, k), item.d[k], out.d[k])
    ELSE IF item.t = "list"
    THEN /\ out.t = "list"
         /\ Len(out.l) = Len(item.l)
         /\ \A i \in 1..Len(item.l) : FilteredAsStated(blacklist, path, item.l[i], out.l[i])
    ELSE out = item

\* C13: at every nesting level the filter drops the keys that start with
\* an underscore, except _id and a _deleted that is true, and keeps every
\* other key that is not blacklisted, and every scalar.
C13_UnderscoreKeysDropped ==
    op = "filter" => FilteredAsStated(input.blacklist, <<>>, input.entity, output.once)

\* C20: a key b of a map under the top-level key a is dropped if and only
\* if a pattern matches its dotted path a.b, and a top-level key if and
\* only if a pattern matches its name.
C20_DottedPathFromRoot ==
    op = "filter" =>
        \A a \in DOMAIN input.entity.d :
            Head(a) # "_" =>
                /\ (a \notin DOMAIN output.once.d)
                       <=> DottedBlacklisted(input.blacklist, <<a>>)
                /\ (a \in DOMAIN output.once.d /\ input.entity.d[a].t = "dict") =>
                       \A b \in DOMAIN input.entity.d[a].d :
                           Head(b) # "_" =>
                               ((b \notin DOMAIN output.once.d[a].d)
                                    <=> DottedBlacklisted(input.blacklist, <<a, b>>))

(* ---------------------------------------------------------------------- *)
(* Properties of the structured comparison                                 *)
(* ---------------------------------------------------------------------- *)

\* No two entities of the list have the same _id.
UniqueIds(entities) ==
    \A i, j \in 1..Len(entities) :
        i # j => entities[i].d[K_id] # entities[j].d[K_id]

\* C14: for entities with unique _id, the order the node returns them in
\* changes neither the verdict of verify nor the bytes update records.
C14_FetchOrderIndependent ==
    (op \in {"verify", "update"} /\ UniqueIds(input.fetched)) =>
        IF op = "verify" THEN output.permuted = output.verdict
        ELSE output.permuted = output.content

\* Two entities fetched with the greater _id first pass against the
\* expected file that lists them by _id; so do they in the other order.
C14_Witness ==
    /\ op = "verify"
    /\ UniqueIds(input.fetched)
    /\ Len(input.fetched) = 2
    /\ StrLess(input.fetched[2].d[K_id].s, input.fetched[1].d[K_id].s)
    /\ input.permuted # input.fetched
    /\ output.verdict = "equal"
    /\ output.permuted = "equal"

\* The records of the expected file, as json.load reads them
ExpectedRecords == Loads(input.expected.text).l

\* The fetched entities filtered and sorted, with the numbers as sent
CurrentAsSent == CurrentOutput(input.fetched, SpecWithBlacklist(input.blacklist))

\* C15: when the expected and the current records differ only in numbers
\* that are 3.0 on one side and 3 on the other, the spec passes.
C15_DecimalEqualsInt ==
    (/\ op = "verify"
     /\ ExpectedRecords # CurrentAsSent
     /\ FixDecimalToInts(JList(ExpectedRecords)) = FixDecimalToInts(JList(CurrentAsSent)))
        => output.verdict = "equal"

\* C16: when the numbers of expected and of current records differ, the
\* spec fails with the length reason, whatever the records hold.
C16_LengthMismatchFirst ==
    (op = "verify" /\ Len(ExpectedRecords) # Len(input.fetched)) =>
        output.verdict = "length"

\* Two expected records against one current record that equals the first.
C16_Witness ==
    /\ op = "verify"
    /\ Len(ExpectedRecords) = 2
    /\ Len(input.fetched) = 1
    /\ CurrentAsSent[1] = ExpectedRecords[1]
    /\ output.verdict = "length"

(* ---------------------------------------------------------------------- *)
(* Properties of status                                                    *)
(* ---------------------------------------------------------------------- *)

\* The names that are in one of the two configs only
OneSideOnly ==
    (DOMAIN input.local \ DOMAIN input.remote) \cup (DOMAIN input.remote \ DOMAIN input.local)

\* The lines of the report about the file
LinesAbout(file) == {i \in 1..Len(output.report) : output.report[i].file = file}

\* C17: when status returns, it reports the configs as in sync if and only
\* if they hold the same file names and every common file decodes to the
\* same text, and every name that is on one side only is reported exactly
\* once, as local-only or as remote-only.
C17_StatusInSyncIffEqual ==
    (op = "status" /\ ~output.raised) =>
        /\ output.in_sync <=>
              /\ DOMAIN input.local = DOMAIN input.remote
              /\ \A f \in DOMAIN input.local \cap DOMAIN input.remote :
                    input.local[f].s = input.remote[f].s
        /\ \A f \in OneSideOnly :
              /\ Cardinality(LinesAbout(f)) = 1
              /\ \A i \in LinesAbout(f) :
                    output.report[i].kind =
                        IF f \in DOMAIN input.local THEN "local_only" ELSE "remote_only"

\* Local files a and b, remote files b and c, b the same on both sides:
\* two lines and not in sync.
C17_Witness ==
    /\ op = "status"
    /\ ~output.raised
    /\ DOMAIN input.local = {K_a, K_b}
    /\ DOMAIN input.remote = {K_b, K_c}
    /\ input.local[K_b] = input.remote[K_b]
    /\ Len(output.report) = 2
    /\ ~output.in_sync

(* ---------------------------------------------------------------------- *)
(* Properties of load_test_specs                                           *)
(* ---------------------------------------------------------------------- *)

\* The specs of the directory, as TestSpec reads them
LoadedSpecs == {TestSpec(f, input.spec_files[f]) : f \in DOMAIN input.spec_files}

\* The baseline files that exist and belong to a spec that says ignore
IgnoredBaselines ==
    {ExpectedPath(t) : t \in {s \in LoadedSpecs : Ignore(s) /\ ExpectedPath(s) \in DOMAIN input.data}}

\* C18: when a spec says ignore and its baseline file exists, load_test_specs
\* completes without error; in update mode it deletes exactly the baseline
\* files of the ignored specs, in verify mode it leaves every file in place.
C18_IgnoredBaselineRemoved ==
    (op = "load" /\ IgnoredBaselines # {}) =>
        /\ ~output.raised
        /\ input.update => DOMAIN output.data = DOMAIN input.data \ IgnoredBaselines
        /\ ~input.update => output.data = input.data

(* ---------------------------------------------------------------------- *)
(* Properties of the order of the expected records                         *)
(* ---------------------------------------------------------------------- *)

\* C21 (as claimed): for expected records with unique _id, the verdict of
\* verify is the same for the expected file and for the file that holds the
\* same records in the opposite order.
C21_BaselineOrderIndependent ==
    (op = "baseline" /\ UniqueIds(ExpectedRecords)) =>
        output.reordered = output.verdict

(* ---------------------------------------------------------------------- *)
(* Properties of the raw comparison                                        *)
(* ---------------------------------------------------------------------- *)

\* C22 (as claimed): when the expected and the current bytes differ and one
\* of them is no UTF-8 text, both are decoded as Latin-1, the spec is
\* recorded as failed with the diff of the two texts, and nothing raises.
C22_Latin1FallbackSucceeds ==
    (/\ op = "raw"
     /\ input.expected # input.current
     /\ ~DecodeUtf8(input.expected).ok \/ ~DecodeUtf8(input.current).ok) =>
        /\ output.failed
        /\ ~output.raised
        /\ output.diff = <<DecodeLatin1(input.expected), DecodeLatin1(input.current)>>

(* ---------------------------------------------------------------------- *)
(* Properties of find_xml_header_settings                                  *)
(* ---------------------------------------------------------------------- *)

\* C23 (as claimed): xml_declaration is true exactly when the data starts
\* with "<?xml "; for a declaration that is closed by "?>" the standalone
\* returned is the quoted value of the standalone attribute, and None when
\* the attribute is absent.
C23_HeaderSettingsExact ==
    op = "xml_header" =>
        /\ output.xml_declaration <=> input.declared
        /\ (input.declared /\ input.closed) =>
              /\ output.has_standalone <=> input.standalone.present
              /\ input.standalone.present => output.standalone = input.standalone.value

(* ---------------------------------------------------------------------- *)
(* Properties of get_pipe_type                                             *)
(* ---------------------------------------------------------------------- *)

\* The source of the pipe references a dataset
SourceHasDataset ==
    LET source_config == Get(input, "source", NoConfig)
    IN \/ Truthy(Get(source_config, "dataset", JNull))
       \/ Truthy(Get(source_config, "datasets", JNull))

\* The sink of the pipe references a dataset
SinkHasDataset == Truthy(Get(Get(input, "sink", NoConfig), "dataset", JNull))

\* C24 (as claimed): a pipe is classified internal only if both its source
\* and its sink reference datasets.
C24_InternalNeedsBothDatasets ==
    (op = "pipe_type" /\ output = "internal") => (SourceHasDataset /\ SinkHasDataset)

(* ---------------------------------------------------------------------- *)
(* Properties of the order of status' report                               *)
(* ---------------------------------------------------------------------- *)

\* C25 (as claimed): the lines status reports about files come in the
\* lexicographic order of the file names.
C25_ReportInNameOrder ==
    (op = "status" /\ ~output.raised) =>
        \A i, j \in 1..Len(output.report) :
            i < j => StrLess(output.report[i].file, output.report[j].file)

(* ---------------------------------------------------------------------- *)
(* Properties of the log cursor                                            *)
(* ---------------------------------------------------------------------- *)

\* C26 (as claimed): once a line has been printed, since is not None and
\* not before the timestamp of any line printed, and no line is printed
\* twice.
C26_SinceNeverResets ==
    (op \in {"log_loop", "log_done"} /\ output.printed # <<>>) =>
        /\ output.since.set
        /\ \A i \in 1..Len(output.printed) : output.since.ts >= output.printed[i]
        /\ \A i, j \in 1..Len(output.printed) :
              i # j => output.printed[i] # output.printed[j]

(* ---------------------------------------------------------------------- *)
(* Properties of the map load_test_specs returns                           *)
(* ---------------------------------------------------------------------- *)

\* A spec file of the directory names the pipe
HadSpec(pipe_id) == \E t \in LoadedSpecs : t.spec.pipe = pipe_id

\* C27: when load_test_specs returns in update mode, every output pipe has
\* at least one spec in the map, an empty spec file has been written for
\* every pipe no spec file named, and every spec of the map that is not
\* ignored names an output pipe; in verify mode no file is created.
C27_UpdateCoversEveryPipe ==
    (op = "load" /\ ~output.raised) =>
        /\ input.update =>
              /\ \A p \in PipeIds :
                    /\ p \in DOMAIN output.test_specs
                    /\ Len(output.test_specs[p]) >= 1
                    /\ ~HadSpec(p) =>
                          /\ SpecFileName(p) \in DOMAIN output.spec_files
                          /\ output.spec_files[SpecFileName(p)] = NoOptions
              /\ \A p \in DOMAIN output.test_specs :
                    \A i \in 1..Len(output.test_specs[p]) :
                        ~Ignore(output.test_specs[p][i]) =>
                            output.test_specs[p][i].spec.pipe \in PipeIds
        /\ ~input.update =>
              /\ DOMAIN output.spec_files = DOMAIN input.spec_files
              /\ DOMAIN output.data \subseteq DOMAIN input.data

\* The only spec file names a pipe the node does not have: the spec is left
\* out and both pipes get a placeholder.
C27_Witness ==
    /\ op = "load"
    /\ ~output.raised
    /\ input.update
    /\ DOMAIN input.spec_files = {SpecFileName("p1")}
    /\ input.spec_files[SpecFileName("p1")] = [pipe |-> "gone"]
    /\ DOMAIN output.test_specs = PipeIds
    /\ output.spec_files[SpecFileName("p1")] = NoOptions
    /\ SpecFileName("p2") \in DOMAIN output.spec_files

====
